---------------------------- MODULE Spec2Model ----------------------------
(***************************************************************************)
(* A model of mcp-db: the resilience primitives and the session manager    *)
(* that runs every store call behind them, the event stores, the protocol  *)
(* interceptor with the session store, and the ASGI transport wrapper.     *)
(*                                                                         *)
(* Each component has its own specification over its own variables; the    *)
(* variables of the other components are held at their initial values.     *)
(*   SpecBreaker : CircuitBreaker.run around with_retries around           *)
(*                 StorageAdapter.get_session (SessionManager.get with     *)
(*                 use_local_cache=False), several concurrent callers.     *)
(*   SpecEvents  : InMemoryEventStore and RedisEventStore, store_event and *)
(*                 replay_events_after on two streams.                     *)
(*   SpecSessions: ProtocolInterceptor.handle_incoming / handle_outgoing   *)
(*                 on two nodes over one shared session store.             *)
(*   SpecWrapper : the request path of ASGITransportWrapper: the body is   *)
(*                 drained, shown to the interceptor and handed on.        *)
(*   SpecReplay  : a replay_events_after beside store_event calls.         *)
(*   SpecAdmission: maybe_admit_and_warm and ensure_session_transport for  *)
(*                 concurrent requests of one session.                     *)
(*   SpecRetries : with_retries, one call.                                 *)
(*   SpecStorage : InMemoryStorage and RedisStorage under two clients.     *)
(*   SpecCache   : TTLCache.                                               *)
(*   SpecManager : SessionManager over the cache and the session store.    *)
(*   SpecPipeline: one HTTP request through the wrapper, from interception *)
(*                 to the last response message.                           *)
(*   SpecFlow    : a request shown to handle_incoming and its response     *)
(*                 to handle_outgoing, as the wrapper pairs them.          *)
(*   SpecGuard   : SpecBreaker with SessionManager.update's cache refresh. *)
(*   SpecCap     : InMemoryEventStore with every cap, 0 included.          *)
(*   SpecRace    : SessionManager.get suspended on the store beside create *)
(*                 and delete.                                             *)
(***************************************************************************)
EXTENDS Integers, Sequences, FiniteSets, TLC

VARIABLES
    \* ---- utils/resilience.py, core/session_manager.py ----
    config,      \* CircuitBreakerConfig: failure_threshold, reset_timeout_seconds
    retry_attempts, \* SessionManager._retry_attempts
    breaker,     \* CircuitBreaker: _state, _failures, _opened_at
    now,         \* time.time()
    storeUp,     \* whether the external store answers (TRUE) or raises (FALSE)
    pc,          \* per caller: where its SessionManager.get stands
    attempt,     \* per caller: with_retries' loop variable
    calls,       \* per caller: store calls made by its current or last get
    outcome,     \* per caller: how its last get ended
    consec,      \* history: failed runs completed since the last successful run
    storeFails,  \* history: store calls that raised since the last one that answered
    lastTrial,   \* history: how the last run that completed in HALF_OPEN ended
    trials,      \* history: the callers whose run in progress passed _can_attempt
                 \* at or after the step to HALF_OPEN
    \* ---- event/inmemory.py, event/redis.py ----
    backend,     \* which EventStore is in use: "memory" or "redis"
    max_events_per_stream, \* InMemoryEventStore._max_events_per_stream
    streams,     \* InMemoryEventStore._streams: stream id -> deque of EventEntry
    event_index, \* InMemoryEventStore._event_index: event id -> EventEntry
    xstreams,    \* Redis: the stream at <prefix>:events:<stream id>
    xindex,      \* Redis: the hash <prefix>:event_index, event id -> stream id
    xpending,    \* RedisEventStore.store_event calls between their xadd and hset
    redis_ms,    \* the Redis server's clock, in milliseconds
    log,         \* history: every store_event so far, in order
    replayed,    \* what the last replay_events_after was asked, sent and returned
    \* ---- core/interceptor.py, core/session_manager.py, storage ----
    storage,     \* the shared store: session id -> MCPSession
    cache,       \* per node: SessionManager._cache, session id -> MCPSession
    context,     \* per node: the context dict of the request being handled
    steps,       \* history: the status changes the last handler wrote to the store
    created,     \* history: the MCPSession the last handler gave SessionManager.create
    \* ---- core/asgi_wrapper.py (one HTTP request through the wrapper) ----
    wire,        \* the http.request / http.disconnect messages receive() has yet to yield
    sent,        \* history: the body bytes receive() has yielded so far
    sid_header,  \* whether the request carries an mcp-session-id header
    wpc,         \* where app(scope, receive, send) stands
    body_chunks, \* body_chunks
    original_body,        \* original_body
    modified_body_bytes,  \* modified_body_bytes
    first_receive_done,   \* first_receive_done
    engine_body, \* what the engine's first receive() returned, once it has called
    has_record,  \* whether the store holds a record for the header's session id
    writes,      \* history: the session-manager writes this request has caused
    \* ---- event stores: a replay_events_after that suspends at its awaits ----
    replay,      \* the running replay: its locals, and what it was due to send
    \* ---- core/asgi_wrapper.py maybe_admit_and_warm, core/admission.py ----
    instances,   \* the engine's _server_instances on this node: the ids it holds
    transport,   \* the transport registered for the session: the request whose
                 \* start of it is pending, and whether its streams are connected
    warmed,      \* ASGITransportWrapper._warmed
    record,      \* the stored status of the session, None if the store has no record
    task_group,  \* whether the engine's manager has a _task_group
    rpc,         \* per request: where app(scope, receive, send) stands
    req,         \* per request: its HTTP method and JSON-RPC method
    resp,        \* per request: the status the engine answered
    arrivals,    \* how many requests have arrived
    internal_sent, \* history: internal notifications/initialized sent to the engine
    decision,    \* history, per request: what admission saw and did
    terminated,  \* history: what the last DELETE the engine answered found and left
    \* ---- utils/resilience.py with_retries, on its own ----
    retry,      \* with_retries: its arguments, its locals, and a history of its calls and sleeps
    \* ---- storage/base.py InMemoryStorage, storage/redis_adapter.py RedisStorage ----
    adapter,    \* which StorageAdapter is in use: "memory" or "redis"
    sessions,   \* InMemoryStorage._sessions, or the Redis keys <prefix>:session:<id>
    events,     \* InMemoryStorage._events, or the Redis streams <prefix>:events:<id>
    ops,        \* per client: the storage call it is in, with its locals
    deleted,    \* history: what the last delete_session that returned left behind
    updated,    \* history: the update_session calls completed since the record was last created or deleted
    \* ---- cache/l1_cache.py TTLCache ----
    l1,         \* TTLCache: _store, _max_size, _ttl, the clock, and a history of uses and of the last eviction
    \* ---- core/session_manager.py SessionManager with a cache, over a store ----
    got,        \* history: what the last SessionManager.get found in the cache and the store, did and returned
    \* ---- the wrapper, one request from interception to the last response message ----
    http,       \* one HTTP request on its way through the wrapper
    \* ---- the wrapper and the interceptor, one request after the other ----
    flow        \* the request the wrapper is serving and what it has shown the interceptor

varsB == <<config, retry_attempts, breaker, now, storeUp, pc, attempt, calls,
           outcome, consec, storeFails, lastTrial, trials>>

varsE == <<backend, max_events_per_stream, streams, event_index, xstreams,
           xindex, xpending, redis_ms, log, replayed>>

varsS == <<storage, cache, context, steps, created>>

varsW == <<wire, sent, sid_header, wpc, body_chunks, original_body,
           modified_body_bytes, first_receive_done, engine_body, has_record,
           writes>>

varsR == <<replay>>

varsA == <<instances, transport, warmed, record, task_group, rpc, req, resp, arrivals,
           internal_sent, decision, terminated>>

varsT == <<retry>>

varsK == <<adapter, sessions, events, ops, deleted, updated>>

varsL == <<l1>>

varsM == <<got>>

varsH == <<http>>

varsF == <<flow>>

vars == <<varsB, varsE, varsS, varsW, varsR, varsA, varsT, varsK, varsL, varsM, varsH, varsF>>

\* the variables of the components other than the named one
NotBreaker == <<varsE, varsS, varsW, varsR, varsA, varsT, varsK, varsL, varsM, varsH, varsF>>
NotEvents == <<varsB, varsS, varsW, varsR, varsA, varsT, varsK, varsL, varsM, varsH, varsF>>
NotSessions == <<varsB, varsE, varsW, varsR, varsA, varsT, varsK, varsL, varsM, varsH, varsF>>
NotWrapper == <<varsB, varsE, varsS, varsR, varsA, varsT, varsK, varsL, varsM, varsH, varsF>>
NotReplay == <<varsB, varsS, varsW, varsA, varsT, varsK, varsL, varsM, varsH, varsF>>
NotAdmission == <<varsB, varsE, varsS, varsW, varsR, varsT, varsK, varsL, varsM, varsH, varsF>>
NotRetries == <<varsB, varsE, varsS, varsW, varsR, varsA, varsK, varsL, varsM, varsH, varsF>>
NotStorage == <<varsB, varsE, varsS, varsW, varsR, varsA, varsT, varsL, varsM, varsH, varsF>>
NotCache == <<varsB, varsE, varsS, varsW, varsR, varsA, varsT, varsK, varsM, varsH, varsF>>
NotManager == <<varsB, varsE, varsS, varsW, varsR, varsA, varsT, varsK, varsL, varsH, varsF>>
NotPipeline == <<varsB, varsE, varsS, varsW, varsR, varsA, varsT, varsK, varsL, varsM, varsF>>
NotFlow == <<varsB, varsE, varsS, varsW, varsR, varsA, varsT, varsK, varsL, varsM, varsH>>

---------------------------------------------------------------------------
(* Bounds *)

MaxThreshold == 2
MaxTimeout == 2
MaxAttempts == 2
MaxTime == 3

\* the concurrent requests of one node that share its SessionManager
Callers == {"r1", "r2"}

---------------------------------------------------------------------------
(* The components a specification does not exercise stay as constructed *)

None == "None"

\* no replay_events_after has returned since the last change of the store
NoReplay == [done |-> FALSE]

IdleBreaker ==
    /\ config = [failure_threshold |-> 5, reset_timeout_seconds |-> 30]
    /\ retry_attempts = 3
    /\ breaker = [state |-> "closed", failures |-> 0, opened_at |-> 0]
    /\ now = 0
    /\ storeUp = TRUE
    /\ pc = <<>>
    /\ attempt = <<>>
    /\ calls = <<>>
    /\ outcome = <<>>
    /\ consec = 0
    /\ storeFails = 0
    /\ lastTrial = "none"
    /\ trials = {}

IdleEvents ==
    /\ backend = "memory"
    /\ max_events_per_stream = 100
    /\ streams = <<>>
    /\ event_index = <<>>
    /\ xstreams = <<>>
    /\ xindex = <<>>
    /\ xpending = {}
    /\ redis_ms = 0
    /\ log = <<>>
    /\ replayed = NoReplay

IdleSessions ==
    /\ storage = <<>>
    /\ cache = <<>>
    /\ context = <<>>
    /\ steps = {}
    /\ created = [done |-> FALSE]

NotCalled == [got |-> FALSE]

\* a wrapper without requests
IdleAdmission ==
    /\ instances = {}
    /\ transport = [starter |-> "None", connected |-> FALSE]
    /\ warmed = {}
    /\ record = "None"
    /\ task_group = FALSE
    /\ rpc = <<>>
    /\ req = <<>>
    /\ resp = <<>>
    /\ arrivals = 0
    /\ internal_sent = 0
    /\ decision = <<>>
    /\ terminated = [done |-> FALSE]

\* no replay_events_after has been called
IdleReplay ==
    replay = [pc |-> "idle", last |-> "None", result |-> "None", state |-> 0,
              pos |-> 0, rows |-> <<>>, sent |-> <<>>, due |-> <<>>]

IdleRetries == retry = [pc |-> "idle"]

IdleStorage ==
    /\ adapter = "memory"
    /\ sessions = <<>>
    /\ events = <<>>
    /\ ops = <<>>
    /\ deleted = [done |-> FALSE]
    /\ updated = [spoiled |-> FALSE, done |-> <<>>]

IdleCache == l1 = [store |-> <<>>]

IdleManager == got = [done |-> FALSE]

IdlePipeline == http = [pc |-> "idle"]

IdleFlow == flow = [pc |-> "none"]

IdleWrapper ==
    /\ wire = <<>>
    /\ sent = <<>>
    /\ sid_header = FALSE
    /\ wpc = "idle"
    /\ body_chunks = <<>>
    /\ original_body = <<>>
    /\ modified_body_bytes = <<>>
    /\ first_receive_done = FALSE
    /\ engine_body = NotCalled
    /\ has_record = FALSE
    /\ writes = {}

---------------------------------------------------------------------------
(* utils/resilience.py : CircuitBreaker *)

CLOSED == "closed"
OPEN == "open"
HALF_OPEN == "half_open"

\* CircuitBreaker.__init__
NewBreaker == [state |-> CLOSED, failures |-> 0, opened_at |-> 0]

\* the test of line 34: (time.time() - self._opened_at) >= reset_timeout_seconds
TimeoutElapsed(b, t) == (t - b.opened_at) >= config.reset_timeout_seconds

\* a breaker whose OPEN branch lost its "return False"
CanAttemptNoBlock(b, t) == TRUE

\* _can_attempt's return value
CanAttempt(b, t) ==
    IF b.state = CLOSED THEN TRUE
    ELSE IF b.state = OPEN THEN TimeoutElapsed(b, t)
    ELSE TRUE

\* _can_attempt's effect on the breaker
AfterCanAttempt(b, t) ==
    IF b.state = OPEN /\ TimeoutElapsed(b, t)
    THEN [b EXCEPT !.state = HALF_OPEN]
    ELSE b

\* _on_success
OnSuccess(b) == [b EXCEPT !.state = CLOSED, !.failures = 0]

\* a breaker that opens one failure late (> for >=)
OnFailureLate(b, t) ==
    LET f == b.failures + 1 IN
    IF f > config.failure_threshold
    THEN [state |-> OPEN, failures |-> f, opened_at |-> t]
    ELSE [b EXCEPT !.failures = f]

\* a breaker that opens only on the threshold-th failure itself (= for >=)
OnFailureOnce(b, t) ==
    LET f == b.failures + 1 IN
    IF f = config.failure_threshold
    THEN [state |-> OPEN, failures |-> f, opened_at |-> t]
    ELSE [b EXCEPT !.failures = f]

\* _on_failure
OnFailure(b, t) ==
    LET f == b.failures + 1 IN
    IF f >= config.failure_threshold
    THEN [state |-> OPEN, failures |-> f, opened_at |-> t]
    ELSE [b EXCEPT !.failures = f]

---------------------------------------------------------------------------
(* core/session_manager.py : SessionManager.get, cache disabled:           *)
(*   breaker.run(lambda: with_retries(_op, retry_attempts, backoff))        *)

\* a retry loop that gives up after its first failure
LastAttemptFirst(a) == TRUE

\* with_retries: the attempt that just failed was the last one
LastAttempt(a) == a = retry_attempts - 1

\* CircuitBreaker.run up to the await of fn(): refused, or the call starts
GetBegin(c) ==
    /\ pc[c] = "idle"
    /\ IF CanAttempt(breaker, now)
       THEN /\ breaker' = AfterCanAttempt(breaker, now)
            /\ pc' = [pc EXCEPT ![c] = "attempt"]
            /\ outcome' = [outcome EXCEPT ![c] = "none"]
       ELSE /\ breaker' = AfterCanAttempt(breaker, now)
            /\ pc' = pc
            /\ outcome' = [outcome EXCEPT ![c] = "circuit_open"]
    /\ trials' = IF CanAttempt(breaker, now) /\ breaker'.state = HALF_OPEN
                 THEN trials \cup {c} ELSE trials
    /\ attempt' = [attempt EXCEPT ![c] = 0]
    /\ calls' = [calls EXCEPT ![c] = 0]
    /\ UNCHANGED <<config, retry_attempts, now, storeUp, consec, storeFails,
                   lastTrial>>
    /\ UNCHANGED NotBreaker

\* with_retries: coro_factory() returns; run's else branch: _on_success
StoreCallOk(c) ==
    /\ pc[c] = "attempt"
    /\ storeUp
    /\ calls' = [calls EXCEPT ![c] = @ + 1]
    /\ breaker' = OnSuccess(breaker)
    /\ pc' = [pc EXCEPT ![c] = "idle"]
    /\ outcome' = [outcome EXCEPT ![c] = "ok"]
    /\ consec' = 0
    /\ storeFails' = 0
    /\ lastTrial' = IF breaker.state = HALF_OPEN THEN "ok" ELSE lastTrial
    /\ trials' = trials \ {c}
    /\ UNCHANGED <<config, retry_attempts, now, storeUp, attempt>>
    /\ UNCHANGED NotBreaker

\* with_retries: coro_factory() raises and attempts remain: sleep the backoff
StoreCallRetry(c) ==
    /\ pc[c] = "attempt"
    /\ ~storeUp
    /\ ~LastAttempt(attempt[c])
    /\ calls' = [calls EXCEPT ![c] = @ + 1]
    /\ pc' = [pc EXCEPT ![c] = "sleep"]
    /\ storeFails' = storeFails + 1
    /\ UNCHANGED <<config, retry_attempts, breaker, now, storeUp, attempt,
                   outcome, consec, lastTrial, trials>>
    /\ UNCHANGED NotBreaker

\* with_retries: asyncio.sleep returns, the loop goes round
Wake(c) ==
    /\ pc[c] = "sleep"
    /\ attempt' = [attempt EXCEPT ![c] = @ + 1]
    /\ pc' = [pc EXCEPT ![c] = "attempt"]
    /\ UNCHANGED <<config, retry_attempts, breaker, now, storeUp, calls,
                   outcome, consec, storeFails, lastTrial, trials>>
    /\ UNCHANGED NotBreaker

\* with_retries: the last attempt raises; run's except branch: _on_failure
StoreCallFail(c) ==
    /\ pc[c] = "attempt"
    /\ ~storeUp
    /\ LastAttempt(attempt[c])
    /\ calls' = [calls EXCEPT ![c] = @ + 1]
    /\ breaker' = OnFailure(breaker, now)
    /\ pc' = [pc EXCEPT ![c] = "idle"]
    /\ outcome' = [outcome EXCEPT ![c] = "error"]
    /\ consec' = consec + 1
    /\ storeFails' = storeFails + 1
    /\ lastTrial' = IF breaker.state = HALF_OPEN THEN "fail" ELSE lastTrial
    /\ trials' = trials \ {c}
    /\ UNCHANGED <<config, retry_attempts, now, storeUp, attempt>>
    /\ UNCHANGED NotBreaker

\* the clock advances
Tick ==
    /\ now < MaxTime
    /\ now' = now + 1
    /\ UNCHANGED <<config, retry_attempts, breaker, storeUp, pc, attempt,
                   calls, outcome, consec, storeFails, lastTrial, trials>>
    /\ UNCHANGED NotBreaker

\* the external store becomes unreachable
StoreDown ==
    /\ storeUp
    /\ storeUp' = FALSE
    /\ UNCHANGED <<config, retry_attempts, breaker, now, pc, attempt, calls,
                   outcome, consec, storeFails, lastTrial, trials>>
    /\ UNCHANGED NotBreaker

\* the external store recovers
StoreRecover ==
    /\ ~storeUp
    /\ storeUp' = TRUE
    /\ UNCHANGED <<config, retry_attempts, breaker, now, pc, attempt, calls,
                   outcome, consec, storeFails, lastTrial, trials>>
    /\ UNCHANGED NotBreaker

InitBreaker ==
    /\ config \in [failure_threshold : 1..MaxThreshold,
                   reset_timeout_seconds : 1..MaxTimeout]
    /\ retry_attempts \in 1..MaxAttempts
    /\ breaker = NewBreaker
    /\ now = 0
    /\ storeUp \in BOOLEAN
    /\ pc = [c \in Callers |-> "idle"]
    /\ attempt = [c \in Callers |-> 0]
    /\ calls = [c \in Callers |-> 0]
    /\ outcome = [c \in Callers |-> "none"]
    /\ consec = 0
    /\ storeFails = 0
    /\ lastTrial = "none"
    /\ trials = {}
    /\ IdleEvents
    /\ IdleSessions
    /\ IdleWrapper
    /\ IdleReplay
    /\ IdleAdmission
    /\ IdleRetries
    /\ IdleStorage
    /\ IdleCache
    /\ IdleManager
    /\ IdlePipeline
    /\ IdleFlow

NextBreaker ==
    \/ \E c \in Callers : GetBegin(c)
    \/ \E c \in Callers : StoreCallOk(c)
    \/ \E c \in Callers : StoreCallRetry(c)
    \/ \E c \in Callers : Wake(c)
    \/ \E c \in Callers : StoreCallFail(c)
    \/ Tick
    \/ StoreDown
    \/ StoreRecover

SpecBreaker == InitBreaker /\ [][NextBreaker]_vars

TypeBreaker ==
    /\ breaker.state \in {CLOSED, OPEN, HALF_OPEN}
    /\ breaker.failures \in Nat
    /\ breaker.opened_at \in 0..MaxTime

---------------------------------------------------------------------------
(* event/inmemory.py : InMemoryEventStore *)

MaxEvents == 4
MaxCap == 2
MaxMs == 2

Streams == {"s1", "s2"}

\* the values uuid4 can return, in the order their strings sort
EventIds == 1..MaxEvents

\* uuid4 does not return a value it has returned before
FreshIds == EventIds \ {log[i].event_id : i \in 1..Len(log)}

\* the message of the next store_event: every message is distinct
NextMessage == Len(log) + 1

\* dict.pop(key, None)
Pop(f, k) == [x \in DOMAIN f \ {k} |-> f[x]]

\* dict[key] = value
Put(f, k, v) == [x \in DOMAIN f \cup {k} |-> IF x = k THEN v ELSE f[x]]

\* deque(maxlen=n).append: a full deque drops its oldest element
DequeAppend(dq, e, maxlen) ==
    IF maxlen = 0 THEN dq
    ELSE IF Len(dq) >= maxlen THEN Append(Tail(dq), e)
    ELSE Append(dq, e)

\* store_event's update of _event_index
IndexAfterStore(idx, dq, e, maxlen) ==
    LET pruned == IF Len(dq) = maxlen /\ dq # <<>>
                  THEN Pop(idx, dq[1].event_id)
                  ELSE idx
    IN Put(pruned, e.event_id, e)

\* replay_events_after's loop over the deque: what it sends
RECURSIVE Scan(_, _, _)
Scan(evs, last_event_id, found_last) ==
    IF evs = <<>> THEN <<>>
    ELSE IF found_last
    THEN <<[message |-> Head(evs).message, event_id |-> Head(evs).event_id]>>
         \o Scan(Tail(evs), last_event_id, TRUE)
    ELSE Scan(Tail(evs), last_event_id, Head(evs).event_id = last_event_id)

\* InMemoryEventStore.replay_events_after: the stream id returned, the events sent
MemReplayResult(last_event_id) ==
    IF last_event_id \notin DOMAIN event_index
    THEN [result |-> None, sent |-> <<>>]
    ELSE LET stream_id == event_index[last_event_id].stream_id
             stream_events == streams[stream_id]
         IN IF stream_events = <<>>
            THEN [result |-> stream_id, sent |-> <<>>]
            ELSE [result |-> stream_id,
                  sent |-> Scan(stream_events, last_event_id, FALSE)]

\* InMemoryEventStore.store_event
MemStoreEvent(stream_id) ==
    /\ backend = "memory"
    /\ Len(log) < MaxEvents
    /\ \E event_id \in FreshIds :
         LET entry == [event_id |-> event_id, stream_id |-> stream_id,
                       message |-> NextMessage]
         IN /\ event_index' = IndexAfterStore(event_index, streams[stream_id],
                                              entry, max_events_per_stream)
            /\ streams' = [streams EXCEPT ![stream_id] =
                             DequeAppend(@, entry, max_events_per_stream)]
            /\ log' = Append(log, entry)
    /\ replayed' = NoReplay
    /\ UNCHANGED <<backend, max_events_per_stream, xstreams, xindex, xpending,
                   redis_ms>>
    /\ UNCHANGED NotEvents

\* InMemoryEventStore.replay_events_after
MemReplay(last_event_id) ==
    /\ backend = "memory"
    /\ replayed' = [done |-> TRUE, last |-> last_event_id]
                    @@ MemReplayResult(last_event_id)
    /\ UNCHANGED <<backend, max_events_per_stream, streams, event_index,
                   xstreams, xindex, xpending, redis_ms, log>>
    /\ UNCHANGED NotEvents

---------------------------------------------------------------------------
(* event/redis.py : RedisEventStore *)

\* the order of Redis stream ids <ms>-<seq>
XidLess(a, b) == a[1] < b[1] \/ (a[1] = b[1] /\ a[2] < b[2])

\* XADD key * : the id Redis gives the new entry of a stream
XaddId(stream, ms) ==
    IF stream = <<>> THEN <<ms, 0>>
    ELSE LET top == stream[Len(stream)].event_id
         IN IF ms > top[1] THEN <<ms, 0>> ELSE <<top[1], top[2] + 1>>

\* XRANGE key (last_event_id + : the entries with an id after last_event_id
Xrange(stream, last_event_id) ==
    SelectSeq(stream, LAMBDA e : XidLess(last_event_id, e.event_id))

\* the EventMessage sent for each row
RECURSIVE Rows(_)
Rows(rows) ==
    IF rows = <<>> THEN <<>>
    ELSE <<[message |-> Head(rows).message, event_id |-> Head(rows).event_id]>>
         \o Rows(Tail(rows))

\* RedisEventStore.replay_events_after: the stream id returned, the events sent
RedisReplayResult(last_event_id) ==
    IF last_event_id \notin DOMAIN xindex
    THEN [result |-> None, sent |-> <<>>]
    ELSE LET stream_id == xindex[last_event_id]
         IN [result |-> stream_id,
             sent |-> Rows(Xrange(xstreams[stream_id], last_event_id))]

\* RedisEventStore.store_event up to the await of hset: the xadd
RedisXadd(stream_id) ==
    /\ backend = "redis"
    /\ Len(log) < MaxEvents
    /\ LET entry == [event_id |-> XaddId(xstreams[stream_id], redis_ms),
                     stream_id |-> stream_id, message |-> NextMessage]
       IN /\ xstreams' = [xstreams EXCEPT ![stream_id] = Append(@, entry)]
          /\ xpending' = xpending \cup {entry}
          /\ log' = Append(log, entry)
    /\ replayed' = NoReplay
    /\ UNCHANGED <<backend, max_events_per_stream, streams, event_index,
                   xindex, redis_ms>>
    /\ UNCHANGED NotEvents

\* RedisEventStore.store_event: the hset of the index entry
RedisHset(entry) ==
    /\ backend = "redis"
    /\ entry \in xpending
    /\ xindex' = Put(xindex, entry.event_id, entry.stream_id)
    /\ xpending' = xpending \ {entry}
    /\ replayed' = NoReplay
    /\ UNCHANGED <<backend, max_events_per_stream, streams, event_index,
                   xstreams, redis_ms, log>>
    /\ UNCHANGED NotEvents

\* RedisEventStore.replay_events_after
RedisReplay(last_event_id) ==
    /\ backend = "redis"
    /\ replayed' = [done |-> TRUE, last |-> last_event_id]
                    @@ RedisReplayResult(last_event_id)
    /\ UNCHANGED <<backend, max_events_per_stream, streams, event_index,
                   xstreams, xindex, xpending, redis_ms, log>>
    /\ UNCHANGED NotEvents

\* the Redis server's clock advances
RedisTick ==
    /\ backend = "redis"
    /\ redis_ms < MaxMs
    /\ redis_ms' = redis_ms + 1
    /\ replayed' = NoReplay
    /\ UNCHANGED <<backend, max_events_per_stream, streams, event_index,
                   xstreams, xindex, xpending, log>>
    /\ UNCHANGED NotEvents

\* the ids a client may present as Last-Event-ID to the Redis store: those
\* of the stored events, and one that was never given out
KnownXids ==
    IF backend = "redis"
    THEN {log[i].event_id : i \in 1..Len(log)} \cup {<<0, 0>>}
    ELSE {}

InitEvents ==
    /\ backend \in {"memory", "redis"}
    /\ max_events_per_stream \in 1..MaxCap
    /\ streams = [s \in Streams |-> <<>>]
    /\ event_index = <<>>
    /\ xstreams = [s \in Streams |-> <<>>]
    /\ xindex = <<>>
    /\ xpending = {}
    /\ redis_ms = 1
    /\ log = <<>>
    /\ replayed = NoReplay
    /\ IdleBreaker
    /\ IdleSessions
    /\ IdleWrapper
    /\ IdleReplay
    /\ IdleAdmission
    /\ IdleRetries
    /\ IdleStorage
    /\ IdleCache
    /\ IdleManager
    /\ IdlePipeline
    /\ IdleFlow

NextEvents ==
    \/ \E s \in Streams : MemStoreEvent(s)
    \/ \E x \in EventIds : MemReplay(x)
    \/ \E s \in Streams : RedisXadd(s)
    \/ \E e \in xpending : RedisHset(e)
    \/ \E x \in KnownXids : RedisReplay(x)
    \/ RedisTick

SpecEvents == InitEvents /\ [][NextEvents]_vars

---------------------------------------------------------------------------
(* Claims about the event stores (SpecEvents) *)

\* the index of the store in use holds the id
Indexed(x) ==
    IF backend = "memory" THEN x \in DOMAIN event_index ELSE x \in DOMAIN xindex

\* the order of the ids of the store in use
IdLess(a, b) == IF backend = "memory" THEN a < b ELSE XidLess(a, b)

\* the events stored on log[i]'s stream after log[i], in the order stored
RECURSIVE LaterOnStream(_, _)
LaterOnStream(i, j) ==
    IF j > Len(log) THEN <<>>
    ELSE IF log[j].stream_id = log[i].stream_id
    THEN <<[message |-> log[j].message, event_id |-> log[j].event_id]>>
         \o LaterOnStream(i, j + 1)
    ELSE LaterOnStream(i, j + 1)

\* C9: a replay_events_after(X, cb) made with the id X of a stored, indexed
\* event sends exactly the events stored on that event's stream after it, in
\* the order stored, and returns that event's stream id.
CexC9 ==
    replayed.done =>
        \A i \in 1..Len(log) :
            (log[i].event_id = replayed.last /\ Indexed(replayed.last))
            => /\ replayed.result = log[i].stream_id
               /\ replayed.sent = LaterOnStream(i, i + 1)

\* C9 holds of the in-memory store
C9Memory == backend = "memory" => CexC9

\* C10: of two events stored on one stream, the one stored first has the
\* smaller id in the order of the store's ids.
CexC10 ==
    \A i, j \in 1..Len(log) :
        (i < j /\ log[i].stream_id = log[j].stream_id)
        => IdLess(log[i].event_id, log[j].event_id)

\* C10 holds of the Redis store
C10Redis == backend = "redis" => CexC10

\* C11: no two stored events, on one stream or on two, have the same
\* event id, and the index maps the id of every indexed event to the stream
\* that event was stored on.
CexC11 ==
    /\ \A i, j \in 1..Len(log) : i # j => log[i].event_id # log[j].event_id
    /\ \A i \in 1..Len(log) :
          (backend = "redis" /\ log[i].event_id \in DOMAIN xindex /\ log[i] \notin xpending)
          => xindex[log[i].event_id] = log[i].stream_id

\* C11 holds of the in-memory store, whose ids are fresh uuid4 values
C11Memory == backend = "memory" => CexC11

---------------------------------------------------------------------------
(* replay_events_after as a coroutine: it suspends at every await, and      *)
(* store_event calls run while it is suspended.                            *)

\* the deque's mutation counter: deque.append advances it
DequeState(stream_id) ==
    Cardinality({i \in 1..Len(log) : log[i].stream_id = stream_id})

\* the position of the entry with the given id in a deque, 0 if there is none
PosOf(dq, event_id) ==
    IF \E i \in 1..Len(dq) : dq[i].event_id = event_id
    THEN CHOOSE i \in 1..Len(dq) : dq[i].event_id = event_id
    ELSE 0

EventMessage(entry) == [message |-> entry.message, event_id |-> entry.event_id]

\* InMemoryEventStore.replay_events_after up to its first await: the index
\* lookup, then the loop over the deque until the first send_callback
MemReplayBegin(last_event_id) ==
    /\ backend = "memory"
    /\ replay.pc = "idle"
    /\ IF last_event_id \notin DOMAIN event_index
       THEN replay' = [replay EXCEPT !.pc = "returned", !.last = last_event_id]
       ELSE LET stream_id == event_index[last_event_id].stream_id
                stream_events == streams[stream_id]
                at == PosOf(stream_events, last_event_id)
                began == [replay EXCEPT !.last = last_event_id,
                                        !.result = stream_id,
                                        !.state = DequeState(stream_id),
                                        !.due = Scan(stream_events, last_event_id, FALSE)]
            IN IF stream_events = <<>> \/ at = 0 \/ at = Len(stream_events)
               THEN replay' = [began EXCEPT !.pc = "returned"]
               ELSE replay' = [began EXCEPT !.pc = "callback", !.pos = at + 1,
                                  !.sent = <<EventMessage(stream_events[at + 1])>>]
    /\ UNCHANGED varsE
    /\ UNCHANGED NotReplay

\* send_callback returns and the for loop asks the deque's iterator for the
\* next entry: RuntimeError if the deque was appended to meanwhile
MemReplayResume ==
    /\ backend = "memory"
    /\ replay.pc = "callback"
    /\ LET stream_events == streams[replay.result]
       IN IF DequeState(replay.result) # replay.state
          THEN replay' = [replay EXCEPT !.pc = "raised"]
          ELSE IF replay.pos >= Len(stream_events)
          THEN replay' = [replay EXCEPT !.pc = "returned"]
          ELSE replay' = [replay EXCEPT !.pos = @ + 1,
                             !.sent = Append(@, EventMessage(stream_events[replay.pos + 1]))]
    /\ UNCHANGED varsE
    /\ UNCHANGED NotReplay

\* RedisEventStore.replay_events_after up to the await of xrange: the hget
RedisReplayHget(last_event_id) ==
    /\ backend = "redis"
    /\ replay.pc = "idle"
    /\ IF last_event_id \notin DOMAIN xindex
       THEN replay' = [replay EXCEPT !.pc = "returned", !.last = last_event_id]
       ELSE replay' = [replay EXCEPT !.pc = "xrange", !.last = last_event_id,
                          !.result = xindex[last_event_id],
                          !.due = Rows(Xrange(xstreams[xindex[last_event_id]], last_event_id))]
    /\ UNCHANGED varsE
    /\ UNCHANGED NotReplay

\* the xrange answers, and the loop over its rows runs to the first send_callback
RedisReplayXrange ==
    /\ backend = "redis"
    /\ replay.pc = "xrange"
    /\ LET rows == Rows(Xrange(xstreams[replay.result], replay.last))
       IN IF rows = <<>>
          THEN replay' = [replay EXCEPT !.pc = "returned"]
          ELSE replay' = [replay EXCEPT !.pc = "callback", !.rows = rows,
                             !.pos = 1, !.sent = <<rows[1]>>]
    /\ UNCHANGED varsE
    /\ UNCHANGED NotReplay

\* send_callback returns and the loop takes the next of the rows it holds
RedisReplayResume ==
    /\ backend = "redis"
    /\ replay.pc = "callback"
    /\ IF replay.pos >= Len(replay.rows)
       THEN replay' = [replay EXCEPT !.pc = "returned"]
       ELSE replay' = [replay EXCEPT !.pos = @ + 1,
                          !.sent = Append(@, replay.rows[replay.pos + 1])]
    /\ UNCHANGED varsE
    /\ UNCHANGED NotReplay

NextReplay ==
    \/ \E s \in Streams : MemStoreEvent(s)
    \/ \E x \in EventIds : MemReplayBegin(x)
    \/ MemReplayResume
    \/ \E s \in Streams : RedisXadd(s)
    \/ \E e \in xpending : RedisHset(e)
    \/ RedisTick
    \/ \E x \in KnownXids : RedisReplayHget(x)
    \/ RedisReplayXrange
    \/ RedisReplayResume

SpecReplay == InitEvents /\ [][NextReplay]_vars

---------------------------------------------------------------------------
(* Claims about replays that run beside store_event calls (SpecReplay) *)

\* every element of the first sequence occurs in the second
AllIn(xs, ys) == \A i \in 1..Len(xs) : \E j \in 1..Len(ys) : ys[j] = xs[i]

\* C12: a replay_events_after beside which store_event calls run does not
\* raise, and when it has returned it has sent every event that was stored
\* on the stream after last_event_id before it began.
CexC12 ==
    /\ replay.pc # "raised"
    /\ replay.pc = "returned" => AllIn(replay.due, replay.sent)

\* C12 holds of the Redis store, whose replay works on the rows of one XRANGE
C12Redis == backend = "redis" => CexC12

\* what the in-memory replay has sent when it stops, by return or by
\* RuntimeError, it sent in the order stored and was due to send
C12MemoryPrefix ==
    (backend = "memory" /\ replay.pc \in {"raised", "returned"})
    => /\ Len(replay.sent) <= Len(replay.due)
       /\ replay.sent = SubSeq(replay.due, 1, Len(replay.sent))

---------------------------------------------------------------------------
(* core/models.py, storage, core/session_manager.py, core/interceptor.py   *)
(* The store answers every call here, so breaker.run and with_retries pass *)
(* each store call through unchanged.  Every handler runs to its end       *)
(* before another starts, and handle_outgoing is called as the wrapper     *)
(* calls it: with a session id.                                            *)

INITIALIZING == "INITIALIZING"
INITIALIZED == "INITIALIZED"
ACTIVE == "ACTIVE"
SUSPENDED == "SUSPENDED"
RECOVERING == "RECOVERING"
CLOSED_STATUS == "CLOSED"

Nodes == {"n1", "n2"}
SessionIds == {"S"}

\* what a session id argument or header can be: an id, or None
MaybeIds == SessionIds \cup {None}

\* no header that can carry a session id
NoHeaders == [mcp_session_id |-> None, x_mcp_session_id |-> None,
              last_event_id |-> None]

\* the request headers: none, or one of the three a session id is read from
HeaderSets ==
    {NoHeaders}
    \cup {[NoHeaders EXCEPT !.mcp_session_id = s] : s \in SessionIds}
    \cup {[NoHeaders EXCEPT !.x_mcp_session_id = s] : s \in SessionIds}
    \cup {[NoHeaders EXCEPT !.last_event_id = s] : s \in SessionIds}

\* context.get("_mcp_db_init_params") of a context that has none
NoParams == [stashed |-> FALSE, clientInfo |-> None, capabilities |-> None]

\* the params of an initialize request: clientInfo.name and capabilities
InitParams == {[stashed |-> TRUE, clientInfo |-> "client-1", capabilities |-> "caps-1"],
               [stashed |-> TRUE, clientInfo |-> None, capabilities |-> None]}

\* the params of a request of the given method
ParamsOf(method) == IF method = "initialize" THEN InitParams ELSE {NoParams}

Methods == {"initialize", "notifications/initialized", "initialized",
            "tools/call"}

\* the context the wrapper builds for a request (asgi_wrapper.py line 68)
NewContext(n) ==
    [server_id |-> n, last_method |-> None, init_params |-> NoParams]

\* ProtocolInterceptor._extract_session_id
ExtractSessionId(params_session_id, headers) ==
    IF params_session_id # None THEN params_session_id
    ELSE IF headers.mcp_session_id # None THEN headers.mcp_session_id
    ELSE IF headers.x_mcp_session_id # None THEN headers.x_mcp_session_id
    ELSE IF headers.last_event_id # None THEN headers.last_event_id
    ELSE None

\* the MCPSession handle_outgoing builds (lines 79-86 and 93-100)
NewSession(session_id, ctx, fallback) ==
    [id |-> session_id,
     status |-> INITIALIZING,
     client_id |-> IF ctx.init_params.clientInfo # None
                   THEN ctx.init_params.clientInfo ELSE "unknown",
     server_id |-> ctx.server_id,
     capabilities |-> IF ctx.init_params.capabilities # None
                      THEN ctx.init_params.capabilities ELSE "{}",
     metadata |-> [from |-> "interceptor", created_fallback |-> fallback]]

\* StorageAdapter.create_session: upsert by id
CreateSession(st, session) == Put(st, session.id, session)

\* an update_session that removes the record instead of updating it
UpdateSessionDrop(st, session_id, status) == Pop(st, session_id)

\* StorageAdapter.update_session with updates = {"status": status}
UpdateSession(st, session_id, status) ==
    IF session_id \notin DOMAIN st THEN st
    ELSE [st EXCEPT ![session_id].status = status]

\* a store and a node's cache, as one value the manager's operations map
Pair(st, ch) == [st |-> st, ch |-> ch]

\* SessionManager.create: the store's create_session, then cache.set
ManagerCreate(p, session) ==
    Pair(CreateSession(p.st, session), Put(p.ch, session.id, session))

\* SessionManager.get: the cached value, else the store's, which is cached
ManagerGetHit(p, session_id) ==
    session_id \in DOMAIN p.ch \/ session_id \in DOMAIN p.st

ManagerGet(p, session_id) ==
    IF session_id \in DOMAIN p.ch THEN p
    ELSE IF session_id \in DOMAIN p.st
    THEN Pair(p.st, Put(p.ch, session_id, p.st[session_id]))
    ELSE p

\* what SessionManager.get returns for an id that the cache or the store holds
ManagerGetValue(p, session_id) ==
    IF session_id \in DOMAIN p.ch THEN p.ch[session_id] ELSE p.st[session_id]

\* SessionManager.update without its cache refresh
ManagerUpdateStale(p, session_id, status) ==
    Pair(UpdateSession(p.st, session_id, status), p.ch)

\* SessionManager.update: the store's update_session, then the cache refresh
ManagerUpdate(p, session_id, status) ==
    LET st1 == UpdateSession(p.st, session_id, status)
    IN Pair(st1, IF session_id \in DOMAIN st1
                 THEN Put(p.ch, session_id, st1[session_id])
                 ELSE p.ch)

\* the status changes between two values of the store
StatusSteps(st0, st1) ==
    {<<k, st0[k].status, st1[k].status>> :
        k \in {x \in DOMAIN st0 \cap DOMAIN st1 : st0[x].status # st1[x].status}}

\* ProtocolInterceptor.handle_incoming, after json.loads succeeded, on the
\* context the wrapper built for the request: what it does to the store, the
\* node's cache and the context
IncomingStep(n, method, params_session_id, params, headers) ==
    LET ctx0 == NewContext(n)
        session_id == ExtractSessionId(params_session_id, headers)
        p0 == Pair(storage, cache[n])
    IN  /\ IF session_id = None
           THEN /\ context' = [context EXCEPT ![n] = ctx0]
                /\ steps' = {}
                /\ UNCHANGED <<storage, cache>>
           ELSE LET ctx1 == [ctx0 EXCEPT !.last_method = method]
                    ctx2 == IF method = "initialize"
                            THEN [ctx1 EXCEPT !.init_params = params]
                            ELSE ctx1
                    p1 == IF method \in {"initialized", "notifications/initialized"}
                          THEN ManagerUpdate(p0, session_id, ACTIVE)
                          ELSE p0
                IN /\ context' = [context EXCEPT ![n] = ctx2]
                   /\ storage' = p1.st
                   /\ cache' = [cache EXCEPT ![n] = p1.ch]
                   /\ steps' = StatusSteps(storage, p1.st)
        /\ created' = [done |-> FALSE]

\* handle_incoming called on its own
HandleIncoming(n, method, params_session_id, params, headers) ==
    /\ IncomingStep(n, method, params_session_id, params, headers)
    /\ UNCHANGED NotSessions

\* ProtocolInterceptor.handle_outgoing: what it does to the store and the
\* node's cache
OutgoingStep(n, session_id, response_method) ==
    LET ctx == context[n]
        p0 == Pair(storage, cache[n])
        existing == IF session_id # None THEN ManagerGetHit(p0, session_id)
                    ELSE FALSE
        p1 == IF session_id # None THEN ManagerGet(p0, session_id) ELSE p0
        fallback == ~existing /\ session_id # None
        p2 == IF fallback
              THEN ManagerCreate(p1, NewSession(session_id, ctx, TRUE))
              ELSE p1
        init == ctx.last_method = "initialize"
        p3 == IF init
              THEN ManagerCreate(p2, NewSession(session_id, ctx, FALSE))
              ELSE p2
        p4 == IF response_method = "server/disconnect"
              THEN ManagerUpdate(p3, session_id, CLOSED_STATUS)
              ELSE p3
    IN  /\ storage' = p4.st
        /\ cache' = [cache EXCEPT ![n] = p4.ch]
        /\ steps' = StatusSteps(storage, p2.st)
                     \cup StatusSteps(p2.st, p3.st)
                     \cup StatusSteps(p3.st, p4.st)
        /\ created' = IF init
                      THEN [done |-> TRUE, ctx |-> ctx, existed |-> existing,
                            session |-> NewSession(session_id, ctx, FALSE)]
                      ELSE IF fallback
                      THEN [done |-> TRUE, ctx |-> ctx, existed |-> existing,
                            session |-> NewSession(session_id, ctx, TRUE)]
                      ELSE [done |-> FALSE]
        /\ UNCHANGED context

\* handle_outgoing called on its own
HandleOutgoing(n, session_id, response_method) ==
    /\ OutgoingStep(n, session_id, response_method)
    /\ UNCHANGED NotSessions

\* LocalCache: an entry's TTL runs out
CacheExpire(n, session_id) ==
    /\ session_id \in DOMAIN cache[n]
    /\ cache' = [cache EXCEPT ![n] = Pop(@, session_id)]
    /\ steps' = {}
    /\ created' = [done |-> FALSE]
    /\ UNCHANGED <<storage, context>>
    /\ UNCHANGED NotSessions

\* what an observed server message can be: a response, or the notification
ResponseMethods == {None, "server/disconnect"}

InitSessions ==
    /\ storage = <<>>
    /\ cache = [n \in Nodes |-> <<>>]
    /\ context = [n \in Nodes |-> NewContext(n)]
    /\ steps = {}
    /\ created = [done |-> FALSE]
    /\ IdleBreaker
    /\ IdleEvents
    /\ IdleWrapper
    /\ IdleReplay
    /\ IdleAdmission
    /\ IdleRetries
    /\ IdleStorage
    /\ IdleCache
    /\ IdleManager
    /\ IdlePipeline
    /\ IdleFlow

NextSessions ==
    \/ \E n \in Nodes, method \in Methods, sid \in MaybeIds,
          headers \in HeaderSets :
            \E params \in ParamsOf(method) :
                HandleIncoming(n, method, sid, params, headers)
    \/ \E n \in Nodes, sid \in SessionIds, rm \in ResponseMethods :
            HandleOutgoing(n, sid, rm)
    \/ \E n \in Nodes, sid \in SessionIds : CacheExpire(n, sid)

SpecSessions == InitSessions /\ [][NextSessions]_vars

\* the interceptor where every handle_outgoing is called without a session
\* id, as a caller other than the wrapper may call it
NextNoId ==
    \/ \E n \in Nodes, method \in Methods, sid \in MaybeIds,
          headers \in HeaderSets :
            \E params \in ParamsOf(method) :
                HandleIncoming(n, method, sid, params, headers)
    \/ \E n \in Nodes, rm \in ResponseMethods : HandleOutgoing(n, None, rm)

SpecNoId == InitSessions /\ [][NextNoId]_vars

---------------------------------------------------------------------------
(* Claims about the interceptor and the session lifecycle (SpecSessions) *)

\* the lifecycle graph of the data model
LifecycleEdges ==
    {<<INITIALIZING, INITIALIZED>>, <<INITIALIZED, ACTIVE>>,
     <<ACTIVE, SUSPENDED>>, <<ACTIVE, CLOSED_STATUS>>,
     <<SUSPENDED, RECOVERING>>, <<SUSPENDED, ACTIVE>>,
     <<SUSPENDED, CLOSED_STATUS>>,
     <<RECOVERING, ACTIVE>>, <<RECOVERING, CLOSED_STATUS>>}

\* C1: every change of a session's stored status made by handle_incoming or
\* handle_outgoing, on any node, is an edge of the lifecycle graph.
CexC1 == \A e \in steps : <<e[2], e[3]>> \in LifecycleEdges

\* C2: CLOSED is terminal: a session whose stored status is CLOSED keeps
\* that status through every later operation.
CexC2 ==
    [][\A k \in DOMAIN storage :
         storage[k].status = CLOSED_STATUS
         => (k \in DOMAIN storage' /\ storage'[k].status = CLOSED_STATUS)]_vars

\* C4: the session record handle_outgoing creates, on a flow whose last
\* incoming method was initialize or for an id without a record, has status
\* INITIALIZED, client_id the clientInfo.name of the stashed initialize
\* params, server_id the context's, and the params' capabilities.
CexC4 ==
    created.done =>
        /\ created.session.status = INITIALIZED
        /\ created.ctx.init_params.clientInfo # None
             => created.session.client_id = created.ctx.init_params.clientInfo
        /\ created.session.server_id = created.ctx.server_id
        /\ created.ctx.init_params.capabilities # None
             => created.session.capabilities = created.ctx.init_params.capabilities

\* C4 but for the status: the other fields are as the claim says
C4Fields ==
    created.done =>
        /\ created.ctx.init_params.clientInfo # None
             => created.session.client_id = created.ctx.init_params.clientInfo
        /\ created.session.server_id = created.ctx.server_id
        /\ created.ctx.init_params.capabilities # None
             => created.session.capabilities = created.ctx.init_params.capabilities

\* C18: a handle_outgoing that observes server/disconnect for a session id
\* without a record in the store leaves the store as it was.
CexC18 ==
    [][\A n \in Nodes, sid \in SessionIds :
         (HandleOutgoing(n, sid, "server/disconnect") /\ sid \notin DOMAIN storage)
         => storage' = storage]_vars

\* C19: a handle_outgoing called without a session id creates no session
\* record: the store never holds a record whose id is None.
CexC19 ==
    /\ None \notin DOMAIN storage
    /\ created.done => created.session.id # None

\* C19 on the flows whose last incoming method was not initialize, while
\* the store holds no record that an earlier call made without an id
C19NotInitialize ==
    [][\A n \in Nodes, rm \in ResponseMethods :
         (/\ HandleOutgoing(n, None, rm)
          /\ context[n].last_method # "initialize"
          /\ None \notin DOMAIN storage)
         => storage' = storage]_vars

\* C20: right after handle_incoming has processed notifications/initialized
\* or initialized for the id of a session the store holds, the stored status
\* is ACTIVE, a get through the same node's manager returns ACTIVE, and so
\* does a get through the manager of a node whose cache has no entry for
\* the id.
ThmC20 ==
    [][\A n \in Nodes, method \in {"initialized", "notifications/initialized"},
          sid \in MaybeIds, headers \in HeaderSets :
         LET id == ExtractSessionId(sid, headers)
         IN  (/\ id # None
              /\ id \in DOMAIN storage
              /\ context'[n].last_method = method
              /\ HandleIncoming(n, method, sid, NoParams, headers))
             => /\ storage'[id].status = ACTIVE
                /\ ManagerGetValue(Pair(storage', cache'[n]), id).status = ACTIVE
                /\ \A m \in Nodes :
                      id \notin DOMAIN cache'[m]
                      => ManagerGetValue(Pair(storage', cache'[m]), id).status = ACTIVE]_vars

\* C20's case: a handle_incoming on one node has just moved the stored
\* status to ACTIVE while that node's cache held the record, and the other
\* node has no cache entry for the id
WitC20 ==
    \E n, m \in Nodes :
        /\ n # m
        /\ context[n].last_method \in {"initialized", "notifications/initialized"}
        /\ <<"S", INITIALIZING, ACTIVE>> \in steps
        /\ "S" \in DOMAIN cache[n]
        /\ "S" \notin DOMAIN cache[m]
        /\ storage["S"].status = ACTIVE

---------------------------------------------------------------------------
(* Claims about the circuit breaker and the manager's get (SpecBreaker) *)

Threshold == config.failure_threshold
Elapsed == now - breaker.opened_at
AllIdle == \A c \in Callers : pc[c] = "idle"

\* C5: starting CLOSED, the breaker is CLOSED (and attempts every call) exactly
\* while fewer than failure_threshold consecutive failures have occurred, its
\* failure count is the number of consecutive failures, it goes from CLOSED to
\* OPEN exactly on the step that makes the failure_threshold-th consecutive
\* failure, and a successful call resets the count to 0.
ThmC5 ==
    /\ [](/\ breaker.failures = consec
          /\ (breaker.state = CLOSED) <=> (consec < Threshold))
    /\ [][\A c \in Callers :
            (GetBegin(c) /\ consec < Threshold) => pc'[c] = "attempt"]_vars
    /\ [][(breaker.state = CLOSED /\ breaker'.state = OPEN)
            <=> (consec = Threshold - 1 /\ consec' = Threshold)]_vars
    /\ [][\A c \in Callers :
            StoreCallOk(c) => (breaker'.failures = 0 /\ breaker'.state = CLOSED)]_vars

\* C5's case: after an earlier run of failures ended by a successful trial,
\* the breaker has opened again on the second of two consecutive failures.
WitC5 ==
    /\ Threshold = 2
    /\ lastTrial = "ok"
    /\ breaker.state = OPEN
    /\ consec = 2
    /\ \E c \in Callers : outcome[c] = "error"
    /\ \E c \in Callers : outcome[c] = "circuit_open"

\* C6: a run() begun while the breaker is OPEN and less than reset_timeout has
\* elapsed since opened_at ends with circuit_open, starts no call of the
\* wrapped callable, and leaves state, failure count and opened_at as they were.
ThmC6 ==
    /\ [][\A c \in Callers :
            (GetBegin(c) /\ breaker.state = OPEN
               /\ Elapsed < config.reset_timeout_seconds)
            => /\ outcome'[c] = "circuit_open"
               /\ pc'[c] = "idle"
               /\ calls'[c] = 0
               /\ breaker' = breaker]_vars
    /\ [](\A c \in Callers : outcome[c] = "circuit_open" => calls[c] = 0)

\* C6's case: a caller was refused while the breaker is OPEN and still cooling.
WitC6 ==
    /\ breaker.state = OPEN
    /\ Elapsed < config.reset_timeout_seconds
    /\ \E c \in Callers : outcome[c] = "circuit_open" /\ pc[c] = "idle"

\* C7: once reset_timeout has elapsed, a run() begun in OPEN moves the breaker
\* to HALF_OPEN and starts the call; a call that succeeds in HALF_OPEN leaves
\* the breaker CLOSED with failure count 0; a call that fails in HALF_OPEN
\* leaves it OPEN with opened_at the time of that failure, so that a run()
\* at that time is refused.
ThmC7 ==
    /\ [][\A c \in Callers :
            (GetBegin(c) /\ breaker.state = OPEN
               /\ Elapsed >= config.reset_timeout_seconds)
            => (breaker'.state = HALF_OPEN /\ pc'[c] = "attempt")]_vars
    /\ [][\A c \in Callers :
            (StoreCallOk(c) /\ breaker.state = HALF_OPEN)
            => (breaker'.state = CLOSED /\ breaker'.failures = 0)]_vars
    /\ [][\A c \in Callers :
            (StoreCallFail(c) /\ breaker.state = HALF_OPEN)
            => /\ breaker'.state = OPEN
               /\ breaker'.opened_at = now
               /\ now' - breaker'.opened_at < config.reset_timeout_seconds]_vars

\* C7's case: the HALF_OPEN trial failed, the breaker is OPEN again with a
\* refreshed opened_at, and a caller has been refused since.
WitC7 ==
    /\ lastTrial = "fail"
    /\ breaker.state = OPEN
    /\ breaker.opened_at > 0
    /\ breaker.failures > Threshold
    /\ \E c \in Callers : outcome[c] = "circuit_open"

\* C8 as stated: once failure_threshold consecutive get_session calls have
\* failed at the store (and every earlier get has returned), the next get,
\* made before the breaker's timeout could have run out, ends with
\* circuit_open without a store call.
CexC8 ==
    [][\A c \in Callers :
         (GetBegin(c) /\ AllIdle /\ ~storeUp /\ storeFails >= Threshold
            /\ breaker.state # HALF_OPEN
            /\ (breaker.state = OPEN => Elapsed < config.reset_timeout_seconds))
         => (outcome'[c] = "circuit_open" /\ calls'[c] = 0)]_vars

\* C8 amended: a get counts as one failure however many store calls it made
\* (a failed get made exactly retry_attempts of them, a refused get none);
\* after failure_threshold consecutive failed gets a get begun before
\* reset_timeout has elapsed is refused without a store call; a get begun in
\* OPEN after reset_timeout is attempted; a store call that answers ends the
\* get successfully and closes the breaker; and while the store stays up a
\* CLOSED breaker stays CLOSED and no get fails.
ThmC8 ==
    /\ [](\A c \in Callers :
            /\ outcome[c] = "error" => calls[c] = retry_attempts
            /\ outcome[c] = "circuit_open" => calls[c] = 0
            /\ outcome[c] = "ok" => calls[c] \in 1..retry_attempts)
    /\ [][\A c \in Callers :
            (GetBegin(c) /\ consec >= Threshold
               /\ Elapsed < config.reset_timeout_seconds)
            => (outcome'[c] = "circuit_open" /\ calls'[c] = 0)]_vars
    /\ [][\A c \in Callers :
            (GetBegin(c) /\ breaker.state = OPEN
               /\ Elapsed >= config.reset_timeout_seconds)
            => pc'[c] = "attempt"]_vars
    /\ [][\A c \in Callers :
            (pc[c] = "attempt" /\ pc'[c] = "idle" /\ storeUp)
            => (outcome'[c] = "ok" /\ breaker'.state = CLOSED
                /\ breaker'.failures = 0)]_vars
    /\ [][(storeUp /\ storeUp')
            => /\ breaker.state = CLOSED => breaker'.state = CLOSED
               /\ \A c \in Callers :
                    outcome'[c] = "error" => outcome[c] = "error"]_vars

\* C8's case: with the store down, failure_threshold = 2 gets of
\* retry_attempts = 2 store calls each failed, the next get was refused, and
\* after the store's recovery and the timeout a get succeeded and closed the
\* breaker.
WitC8 ==
    /\ Threshold = 2
    /\ retry_attempts = 2
    /\ lastTrial = "ok"
    /\ breaker.state = CLOSED
    /\ storeUp
    /\ \E c \in Callers : outcome[c] = "ok" /\ calls[c] = 1
    /\ \E c \in Callers : outcome[c] = "circuit_open"


---------------------------------------------------------------------------
(* core/asgi_wrapper.py : the request path of ASGITransportWrapper.wrap    *)
(*                                                                         *)
(* Bytes are sequences of tokens: punctuation, one space, and atoms, which *)
(* are the spellings of JSON strings and numbers.  json.loads and          *)
(* json.dumps work on these sequences.                                     *)

MaxMembers == 2

SP == " "

\* a byte that is no UTF-8
BadByte == "\\xff"

\* bytes.decode("utf-8", errors="ignore"): the undecodable bytes are dropped
NotBadByte(tok) == tok # BadByte
Utf8Decode(bytes) == SelectSeq(bytes, NotBadByte)

\* the spellings of JSON strings that occur, and the str each one decodes to
StringValue ==
    ("\"method\"" :> "method") @@ ("\"id\"" :> "id") @@ ("\"_raw\"" :> "_raw") @@
    ("\"ping\"" :> "ping") @@ ("\"p\\u0069ng\"" :> "ping") @@
    ("\"notifications/initialized\"" :> "notifications/initialized") @@
    ("\"initialize\"" :> "initialize")

StringTokens == DOMAIN StringValue
NumberTokens == {"1"}

\* json.dumps of a str: the quoted spelling without needless escapes
EncodeString ==
    ("method" :> "\"method\"") @@ ("id" :> "\"id\"") @@ ("_raw" :> "\"_raw\"") @@
    ("ping" :> "\"ping\"") @@
    ("notifications/initialized" :> "\"notifications/initialized\"") @@
    ("initialize" :> "\"initialize\"")

IsAtom(tok) == tok \in StringTokens \cup NumberTokens

\* the Python value an atom decodes to
Decode(tok) ==
    IF tok \in StringTokens THEN [str |-> TRUE, v |-> StringValue[tok]]
                            ELSE [str |-> FALSE, v |-> tok]

\* json.dumps of a str or an int value
Encode(val) == IF val.str THEN EncodeString[val.v] ELSE val.v

NotSpace(tok) == tok # SP

\* dict.__setitem__: a repeated key keeps its place and takes the new value
DictSet(d, k, val) ==
    IF \E i \in DOMAIN d : d[i].key = k
    THEN [i \in DOMAIN d |-> IF d[i].key = k THEN [key |-> k, value |-> val] ELSE d[i]]
    ELSE Append(d, [key |-> k, value |-> val])

HasKey(d, k) == \E i \in DOMAIN d : d[i].key = k
DictGet(d, k) == d[CHOOSE i \in DOMAIN d : d[i].key = k].value

RECURSIVE DictOf(_, _)
\* the dict json.loads builds from the tokens between the braces
DictOf(inner, d) ==
    IF Len(inner) < 3 THEN d
    ELSE DictOf(SubSeq(inner, 5, Len(inner)),
                DictSet(d, StringValue[inner[1]], Decode(inner[3])))

IsMembers(inner) ==
    \/ Len(inner) = 0
    \/ /\ Len(inner) % 4 = 3
       /\ \A i \in 1..Len(inner) :
            CASE i % 4 = 1 -> inner[i] \in StringTokens
              [] i % 4 = 2 -> inner[i] = ":"
              [] i % 4 = 3 -> IsAtom(inner[i])
              [] OTHER     -> inner[i] = ","

IsItems(inner) ==
    \/ Len(inner) = 0
    \/ /\ Len(inner) % 2 = 1
       /\ \A i \in 1..Len(inner) :
            IF i % 2 = 1 THEN IsAtom(inner[i]) ELSE inner[i] = ","

\* json.loads: a dict, a list, a str or int, or JSONDecodeError
json_loads(text) ==
    LET toks == SelectSeq(text, NotSpace)
        n == Len(toks)
        inner == SubSeq(toks, 2, n - 1)
    IN  IF n >= 2 /\ toks[1] = "{" /\ toks[n] = "}" /\ IsMembers(inner)
           THEN [kind |-> "dict", dict |-> DictOf(inner, <<>>)]
        ELSE IF n >= 2 /\ toks[1] = "[" /\ toks[n] = "]" /\ IsItems(inner)
           THEN [kind |-> "list", dict |-> <<>>]
        ELSE IF n = 1 /\ IsAtom(toks[1])
           THEN [kind |-> "scalar", dict |-> <<>>]
        ELSE [kind |-> "JSONDecodeError", dict |-> <<>>]

\* how an object is laid out: the bytes after a key, between members, and
\* inside the braces
DumpsFormat == [key |-> <<":", SP>>, item |-> <<",", SP>>, pad |-> <<>>]
CompactFormat == [key |-> <<":">>, item |-> <<",">>, pad |-> <<>>]
PaddedFormat == [key |-> <<SP, ":", SP>>, item |-> <<",", SP>>, pad |-> <<SP>>]
Formats == {DumpsFormat, CompactFormat, PaddedFormat}

RECURSIVE RenderMembers(_, _)
RenderMembers(ms, f) ==
    IF ms = <<>> THEN <<>>
    ELSE <<ms[1][1]>> \o f.key \o <<ms[1][2]>> \o
         (IF Len(ms) = 1 THEN <<>> ELSE f.item \o RenderMembers(Tail(ms), f))

RenderObject(ms, f) ==
    <<"{">> \o f.pad \o RenderMembers(ms, f) \o f.pad \o <<"}">>

\* json.dumps of a dict, with the default separators ", " and ": "
json_dumps(d) ==
    RenderObject([i \in DOMAIN d |-> <<EncodeString[d[i].key], Encode(d[i].value)>>],
                 DumpsFormat)

\* what ProtocolInterceptor.handle_incoming does with the payload text: it
\* returns {"_raw": text} when the text does not parse, raises when the
\* parsed value is no dict (message.get) or when SessionManager.update
\* raises, and otherwise returns the parsed message
Forwarded(payload_text, store_raises) ==
    LET message == json_loads(payload_text)
    IN  IF message.kind = "JSONDecodeError"
           THEN [raises |-> FALSE, dict |-> <<[key |-> "_raw", value |-> [str |-> TRUE, v |-> "text"]]>>,
                 raw |-> payload_text]
        ELSE IF message.kind # "dict"
           THEN [raises |-> TRUE, dict |-> <<>>, raw |-> <<>>]
        ELSE IF /\ store_raises
                /\ sid_header
                /\ HasKey(message.dict, "method")
                /\ DictGet(message.dict, "method").v = "notifications/initialized"
           THEN [raises |-> TRUE, dict |-> <<>>, raw |-> <<>>]
        ELSE [raises |-> FALSE, dict |-> message.dict,
              raw |-> IF HasKey(message.dict, "_raw")
                         THEN <<DictGet(message.dict, "_raw").v>> ELSE <<>>]

\* the method handle_incoming classifies the payload by, None when it
\* returns before that: the text is no JSON object or no session id is known
MethodSeen(payload_text) ==
    LET message == json_loads(payload_text)
    IN  IF message.kind = "dict" /\ sid_header /\ HasKey(message.dict, "method")
        THEN DictGet(message.dict, "method").v
        ELSE None

\* the session-manager writes handle_incoming makes for the body
IncomingWrites(body, store_raises) ==
    IF /\ body # <<>>
       /\ MethodSeen(Utf8Decode(body)) = "notifications/initialized"
       /\ ~store_raises
    THEN {"update"} ELSE {}

\* context["_mcp_db_last_method"] after the interception block
LastMethod(body) == IF body = <<>> THEN None ELSE MethodSeen(Utf8Decode(body))

\* modified_body_bytes as the interception block leaves it
ModifiedBody(body, store_raises) ==
    LET forwarded == Forwarded(Utf8Decode(body), store_raises)
    IN  IF body = <<>> THEN body
        ELSE IF forwarded.raises THEN body
        ELSE IF HasKey(forwarded.dict, "_raw") THEN forwarded.raw
        ELSE json_dumps(forwarded.dict)

RECURSIVE Join(_)
\* b"".join(body_chunks)
Join(chunks) == IF chunks = <<>> THEN <<>> ELSE Head(chunks) \o Join(Tail(chunks))

\* the body drain reads an http.request message
ReceiveBody ==
    /\ wpc = "drain"
    /\ wire # <<>>
    /\ Head(wire).type = "http.request"
    /\ wire' = Tail(wire)
    /\ sent' = sent \o Head(wire).body
    /\ body_chunks' = Append(body_chunks, Head(wire).body)
    /\ IF Head(wire).more_body
          THEN wpc' = "drain" /\ UNCHANGED original_body
          ELSE wpc' = "intercept" /\ original_body' = Join(body_chunks')
    /\ UNCHANGED <<sid_header, modified_body_bytes, first_receive_done, engine_body,
                   has_record, writes>>
    /\ UNCHANGED NotWrapper

\* the body drain reads a message of another type
ReceiveOther ==
    /\ wpc = "drain"
    /\ wire # <<>>
    /\ Head(wire).type # "http.request"
    /\ wire' = Tail(wire)
    /\ body_chunks' = Append(body_chunks, <<>>)
    /\ original_body' = Join(body_chunks')
    /\ wpc' = "intercept"
    /\ UNCHANGED <<sent, sid_header, modified_body_bytes, first_receive_done,
                   engine_body, has_record, writes>>
    /\ UNCHANGED NotWrapper

\* the interception block, up to the call of the inner application
Intercept(store_raises) ==
    /\ wpc = "intercept"
    /\ modified_body_bytes' = ModifiedBody(original_body, store_raises)
    /\ writes' = IncomingWrites(original_body, store_raises)
    /\ wpc' = "serve"
    /\ UNCHANGED <<wire, sent, sid_header, body_chunks, original_body,
                   first_receive_done, engine_body, has_record>>
    /\ UNCHANGED NotWrapper

\* the engine's first receive(): wrapped_receive replays the buffered body
WrappedReceiveFirst ==
    /\ wpc = "serve"
    /\ ~first_receive_done
    /\ first_receive_done' = TRUE
    /\ engine_body' = [got |-> TRUE, body |-> modified_body_bytes]
    /\ modified_body_bytes' = <<>>
    /\ UNCHANGED <<wire, sent, sid_header, wpc, body_chunks, original_body,
                   has_record, writes>>
    /\ UNCHANGED NotWrapper

\* a later receive() of the engine: wrapped_receive passes receive() through
WrappedReceivePassthrough ==
    /\ wpc = "serve"
    /\ first_receive_done
    /\ wire # <<>>
    /\ wire' = Tail(wire)
    /\ UNCHANGED <<sent, sid_header, wpc, body_chunks, original_body,
                   modified_body_bytes, first_receive_done, engine_body,
                   has_record, writes>>
    /\ UNCHANGED NotWrapper

\* the engine's response passes wrapped_send: a complete JSON body (or an
\* SSE data line) is shown to handle_outgoing when a session id is known,
\* and handle_outgoing creates a record when the store has none or when the
\* request was an initialize
Respond(json_response) ==
    /\ wpc = "serve"
    /\ first_receive_done
    /\ wpc' = "responded"
    /\ IF json_response /\ sid_header
          /\ (~has_record \/ LastMethod(original_body) = "initialize")
       THEN /\ writes' = writes \cup {"create"}
            /\ has_record' = TRUE
       ELSE UNCHANGED <<writes, has_record>>
    /\ UNCHANGED <<wire, sent, sid_header, body_chunks, original_body,
                   modified_body_bytes, first_receive_done, engine_body>>
    /\ UNCHANGED NotWrapper

\* the members a client may put in its object: <<key spelling, value spelling>>
Members ==
    { <<"\"method\"", "\"ping\"">>, <<"\"method\"", "\"p\\u0069ng\"">>,
      <<"\"method\"", "\"notifications/initialized\"">>,
      <<"\"method\"", "\"initialize\"">>,
      <<"\"id\"", "1">>, <<"\"_raw\"", "\"ping\"">> }

MemberSeqs == UNION { [1..n -> Members] : n \in 0..MaxMembers }

\* request bodies: objects in every layout, other JSON values, text that is
\* no JSON, and no body at all
Bodies ==
    { RenderObject(ms, f) : ms \in MemberSeqs, f \in Formats }
    \cup { <<"[", "1", "]">>, <<"[", SP, "1", ",", "1", "]">>, <<"1">>, <<"\"ping\"">>,
           <<"not-json", "{">>, <<"{", "\"method\"", ":">>, <<>>,
           <<BadByte, "not-json", "{">>, <<"{", BadByte, "}">>, <<BadByte>> }

Disconnect == [type |-> "http.disconnect", body |-> <<>>, more_body |-> FALSE]
Request(body, more_body) == [type |-> "http.request", body |-> body, more_body |-> more_body]

\* the messages receive() yields for a body: whole, in two chunks, or cut
\* short by the client's disconnect
Wires(body) ==
    { <<Request(body, FALSE), Disconnect>> }
    \cup { <<Request(SubSeq(body, 1, k), TRUE), Request(SubSeq(body, k + 1, Len(body)), FALSE),
             Disconnect>> : k \in 1..(Len(body) - 1) }
    \cup { <<Request(SubSeq(body, 1, k), TRUE), Disconnect>> : k \in 1..(Len(body) - 1) }

InitWrapper ==
    /\ \E body \in Bodies : wire \in Wires(body)
    /\ sent = <<>>
    /\ sid_header \in BOOLEAN
    /\ wpc = "drain"
    /\ body_chunks = <<>>
    /\ original_body = <<>>
    /\ modified_body_bytes = <<>>
    /\ first_receive_done = FALSE
    /\ engine_body = NotCalled
    /\ has_record \in BOOLEAN
    /\ writes = {}
    /\ IdleBreaker
    /\ IdleEvents
    /\ IdleSessions
    /\ IdleReplay
    /\ IdleAdmission
    /\ IdleRetries
    /\ IdleStorage
    /\ IdleCache
    /\ IdleManager
    /\ IdlePipeline
    /\ IdleFlow

NextWrapper ==
    \/ ReceiveBody
    \/ ReceiveOther
    \/ \E store_raises \in BOOLEAN : Intercept(store_raises)
    \/ WrappedReceiveFirst
    \/ WrappedReceivePassthrough
    \/ \E json_response \in BOOLEAN : Respond(json_response)

SpecWrapper == InitWrapper /\ [][NextWrapper]_vars

---------------------------------------------------------------------------
(* Claims about the transport wrapper (SpecWrapper) *)

ValidJson(body) == json_loads(body).kind # "JSONDecodeError"

\* C3: when the body received from the client is syntactically valid JSON,
\* the body the engine's receive() returns is that body, token for token.
CexC3 ==
    (engine_body.got /\ ValidJson(sent)) => engine_body.body = sent

\* C3 holds of the bodies that are no JSON object and are all UTF-8
C3Untouched ==
    (engine_body.got /\ json_loads(sent).kind # "dict" /\ Utf8Decode(sent) = sent)
    => engine_body.body = sent

\* C17: when the body received is no valid JSON and the request bears a
\* session id in its header, the engine's receive() returns the body
\* received, token for token, and the request causes no session-manager
\* write.
CexC17 ==
    (engine_body.got /\ ~ValidJson(sent) /\ sid_header)
    => /\ engine_body.body = sent
       /\ writes = {}

\* C17 holds of the bodies that are all UTF-8, sent for a session that has
\* a record in the store
C17Known ==
    (/\ engine_body.got /\ ~ValidJson(sent) /\ sid_header
     /\ Utf8Decode(sent) = sent /\ has_record /\ "create" \notin writes)
    => /\ engine_body.body = sent
       /\ writes = {}


---------------------------------------------------------------------------
(* core/asgi_wrapper.py : maybe_admit_and_warm and the call of the engine; *)
(* core/admission.py : StreamableHTTPAdmissionController.                  *)
(* One node, one session id, requests that all bear that id in their       *)
(* Mcp-Session-Id header and run concurrently, suspending at their awaits. *)

MaxRequests == 3

Requests == {"q1", "q2"}

\* the session id the requests bear
TheSession == "S"

Statuses == {INITIALIZING, INITIALIZED, ACTIVE, SUSPENDED, RECOVERING, CLOSED_STATUS}

\* the requests a client sends: HTTP method and JSON-RPC method (None
\* for the bodiless DELETE)
RequestKinds ==
    { [http |-> "POST", method |-> "initialize"],
      [http |-> "POST", method |-> "notifications/initialized"],
      [http |-> "POST", method |-> "tools/call"],
      [http |-> "DELETE", method |-> None] }

NoRequest == [http |-> None, method |-> None]

NoDecision ==
    [made |-> FALSE, had_session |-> FALSE, looked_up |-> FALSE, answer |-> None,
     stored |-> None, ensure_called |-> FALSE, before |-> {}, after |-> {},
     raised |-> FALSE, failed |-> FALSE, after_delete |-> FALSE,
     returned |-> FALSE, ready |-> FALSE]

\* StreamableHTTPAdmissionController.has_session
HasSession(session_id) == session_id \in instances

\* no transport is registered for the session
NoTransport == [starter |-> None, connected |-> FALSE]

\* a transport whose streams are connected: the one the engine made for a
\* session of its own, or one whose start has ended well
ConnectedTransport == [starter |-> None, connected |-> TRUE]

\* the transport ensure_session_transport has made and put into the mapping,
\* before it is started
NewTransport(r) == [starter |-> r, connected |-> FALSE]

\* a transport in the mapping whose start has failed
FailedTransport == [starter |-> None, connected |-> FALSE]

\* ensure_session_transport returns to the request while the registered
\* transport is as given
Returned(d, registered) == [d EXCEPT !.returned = TRUE, !.ready = registered.connected]

\* the request arrives: the body is drained and handle_incoming runs, which
\* for notifications/initialized updates the stored status to ACTIVE
Arrive(r, kind) ==
    /\ rpc[r] = "idle"
    /\ arrivals < MaxRequests
    /\ arrivals' = arrivals + 1
    /\ req' = [req EXCEPT ![r] = kind]
    /\ record' = IF kind.method = "notifications/initialized" /\ record # None
                 THEN ACTIVE ELSE record
    /\ decision' = [decision EXCEPT ![r] =
                      [NoDecision EXCEPT !.after_delete =
                          terminated.done /\ terminated.accepted]]
    /\ resp' = [resp EXCEPT ![r] = 0]
    /\ rpc' = [rpc EXCEPT ![r] = "admit"]
    /\ UNCHANGED <<instances, transport, warmed, task_group, internal_sent, terminated>>
    /\ UNCHANGED NotAdmission

\* maybe_admit_and_warm up to the await of the session lookup
Admit(r) ==
    /\ rpc[r] = "admit"
    /\ IF req[r].method = "initialize"
       THEN /\ rpc' = [rpc EXCEPT ![r] = "engine"]
            /\ decision' = [decision EXCEPT ![r].made = TRUE]
       ELSE IF HasSession(TheSession)
       THEN /\ rpc' = [rpc EXCEPT ![r] = "engine"]
            /\ decision' = [decision EXCEPT ![r].made = TRUE, ![r].had_session = TRUE]
       ELSE /\ rpc' = [rpc EXCEPT ![r] = "lookup"]
            /\ UNCHANGED decision
    /\ UNCHANGED <<instances, transport, warmed, record, task_group, req, resp, arrivals,
                   internal_sent, terminated>>
    /\ UNCHANGED NotAdmission

\* the status the lookup gave is one that has the transport reconstructed
WantedAlsoClosed(status) == status # INITIALIZING
Wanted(status) == status \in {INITIALIZED, ACTIVE, None}

\* the warming condition
Warming(status) == status = ACTIVE /\ TheSession \notin warmed

\* the session lookup answers or raises; the status decides; and
\* ensure_session_transport runs up to its await of task_group.start
Lookup(r, lookup_raises, ctor_raises) ==
    /\ rpc[r] = "lookup"
    /\ LET status == IF lookup_raises THEN None ELSE record
           wanted == Wanted(status)
           seen == [decision[r] EXCEPT !.made = TRUE, !.looked_up = TRUE,
                       !.answer = IF lookup_raises THEN "raises" ELSE record,
                       !.stored = record, !.ensure_called = wanted,
                       !.before = instances, !.after = instances]
       IN  IF ~wanted
           THEN /\ rpc' = [rpc EXCEPT ![r] = "engine"]
                /\ decision' = [decision EXCEPT ![r] = seen]
                /\ UNCHANGED <<instances, transport, internal_sent>>
           ELSE IF HasSession(TheSession)
           THEN \* ensure_session_transport returns at once
                /\ decision' = [decision EXCEPT ![r] = Returned(seen, transport)]
                /\ UNCHANGED <<instances, transport>>
                /\ IF Warming(status)
                   THEN /\ internal_sent' = internal_sent + 1
                        /\ rpc' = [rpc EXCEPT ![r] = "warm"]
                   ELSE /\ UNCHANGED internal_sent
                        /\ rpc' = [rpc EXCEPT ![r] = "engine"]
           ELSE IF ctor_raises
           THEN \* the transport's constructor raises; maybe_admit_and_warm
                \* swallows what ensure_session_transport lets through
                /\ decision' = [decision EXCEPT ![r] = [seen EXCEPT !.raised = TRUE]]
                /\ rpc' = [rpc EXCEPT ![r] = "engine"]
                /\ UNCHANGED <<instances, transport, internal_sent>>
           ELSE /\ instances' = instances \cup {TheSession}
                /\ transport' = NewTransport(r)
                /\ IF task_group
                   THEN /\ decision' = [decision EXCEPT ![r] = seen]
                        /\ rpc' = [rpc EXCEPT ![r] = "start"]
                        /\ UNCHANGED internal_sent
                   ELSE /\ decision' = [decision EXCEPT ![r] =
                                          Returned([seen EXCEPT !.after = instances'],
                                                   transport')]
                        /\ IF Warming(status)
                           THEN /\ internal_sent' = internal_sent + 1
                                /\ rpc' = [rpc EXCEPT ![r] = "warm"]
                           ELSE /\ UNCHANGED internal_sent
                                /\ rpc' = [rpc EXCEPT ![r] = "engine"]
    /\ UNCHANGED <<warmed, record, task_group, req, resp, arrivals, terminated>>
    /\ UNCHANGED NotAdmission

\* task_group.start(_run) and its fallbacks end, with the transport's
\* streams connected or not: ensure_session_transport returns either way
Started(r, connected) ==
    /\ rpc[r] = "start"
    /\ transport' = IF transport # NewTransport(r) THEN transport
                    ELSE IF connected THEN ConnectedTransport ELSE FailedTransport
    /\ decision' = [decision EXCEPT ![r] =
                      Returned([@ EXCEPT !.after = instances, !.failed = ~connected],
                               transport')]
    /\ IF Warming(decision[r].answer)
       THEN /\ internal_sent' = internal_sent + 1
            /\ rpc' = [rpc EXCEPT ![r] = "warm"]
       ELSE /\ UNCHANGED internal_sent
            /\ rpc' = [rpc EXCEPT ![r] = "engine"]
    /\ UNCHANGED <<instances, warmed, record, task_group, req, resp, arrivals,
                   terminated>>
    /\ UNCHANGED NotAdmission

\* _send_internal_initialized returns and the id is marked warmed
Warmed(r) ==
    /\ rpc[r] = "warm"
    /\ warmed' = warmed \cup {TheSession}
    /\ rpc' = [rpc EXCEPT ![r] = "engine"]
    /\ UNCHANGED <<instances, transport, record, task_group, req, resp, arrivals,
                   internal_sent, decision, terminated>>
    /\ UNCHANGED NotAdmission

\* what handle_outgoing leaves in the store when the wrapper shows it the
\* engine's response: a record is created when there is none or when the
\* request was an initialize
AfterOutgoing(status, method) ==
    IF status = None \/ method = "initialize" THEN INITIALIZING ELSE status

\* the engine answers a POST: it serves an initialize and the requests of a
\* session it holds a transport for, and answers 404 to the others
EnginePost(r, observed) ==
    /\ rpc[r] = "engine"
    /\ req[r].http = "POST"
    /\ resp' = [resp EXCEPT ![r] =
                  IF req[r].method = "initialize" \/ HasSession(TheSession)
                  THEN 200 ELSE 404]
    /\ record' = IF observed THEN AfterOutgoing(record, req[r].method) ELSE record
    /\ rpc' = [rpc EXCEPT ![r] = "done"]
    /\ UNCHANGED <<instances, transport, warmed, task_group, req, arrivals, internal_sent,
                   decision, terminated>>
    /\ UNCHANGED NotAdmission

\* the engine answers a DELETE: it drops the transport and answers 200, or
\* does not support termination and answers 405; 404 if it holds none
EngineDelete(r, supported, observed) ==
    /\ rpc[r] = "engine"
    /\ req[r].http = "DELETE"
    /\ LET code == IF ~HasSession(TheSession) THEN 404
                   ELSE IF supported THEN 200 ELSE 405
       IN  /\ resp' = [resp EXCEPT ![r] = code]
           /\ instances' = IF code = 200 THEN instances \ {TheSession} ELSE instances
           /\ transport' = IF code = 200 THEN NoTransport ELSE transport
           /\ record' = IF observed THEN AfterOutgoing(record, req[r].method) ELSE record
           /\ terminated' = [done |-> TRUE, accepted |-> code = 200, code |-> code,
                             held |-> instances, holds |-> instances',
                             stored |-> record, stores |-> record']
    /\ rpc' = [rpc EXCEPT ![r] = "done"]
    /\ UNCHANGED <<warmed, task_group, req, arrivals, internal_sent, decision>>
    /\ UNCHANGED NotAdmission

\* the request is over; its task can take the next one
Finish(r) ==
    /\ rpc[r] = "done"
    /\ rpc' = [rpc EXCEPT ![r] = "idle"]
    /\ req' = [req EXCEPT ![r] = NoRequest]
    /\ resp' = [resp EXCEPT ![r] = 0]
    /\ decision' = [decision EXCEPT ![r] = NoDecision]
    /\ UNCHANGED <<instances, transport, warmed, record, task_group, arrivals,
                   internal_sent, terminated>>
    /\ UNCHANGED NotAdmission

InitAdmission ==
    /\ instances \in SUBSET {TheSession}
    /\ transport = IF TheSession \in instances THEN ConnectedTransport ELSE NoTransport
    /\ warmed = {}
    /\ record \in Statuses \cup {None}
    /\ task_group \in BOOLEAN
    /\ rpc = [r \in Requests |-> "idle"]
    /\ req = [r \in Requests |-> NoRequest]
    /\ resp = [r \in Requests |-> 0]
    /\ arrivals = 0
    /\ internal_sent = 0
    /\ decision = [r \in Requests |-> NoDecision]
    /\ terminated = [done |-> FALSE]
    /\ IdleBreaker
    /\ IdleEvents
    /\ IdleSessions
    /\ IdleWrapper
    /\ IdleReplay
    /\ IdleRetries
    /\ IdleStorage
    /\ IdleCache
    /\ IdleManager
    /\ IdlePipeline
    /\ IdleFlow

NextAdmission ==
    \/ \E r \in Requests, kind \in RequestKinds : Arrive(r, kind)
    \/ \E r \in Requests : Admit(r)
    \/ \E r \in Requests, lookup_raises, ctor_raises \in BOOLEAN :
            Lookup(r, lookup_raises, ctor_raises)
    \/ \E r \in Requests, connected \in BOOLEAN : Started(r, connected)
    \/ \E r \in Requests : Warmed(r)
    \/ \E r \in Requests, observed \in BOOLEAN : EnginePost(r, observed)
    \/ \E r \in Requests, supported, observed \in BOOLEAN :
            EngineDelete(r, supported, observed)
    \/ \E r \in Requests : Finish(r)

SpecAdmission == InitAdmission /\ [][NextAdmission]_vars


---------------------------------------------------------------------------
(* Claims about admission and warming (SpecAdmission) *)

CexC14 == internal_sent <= 1

\* C14 but for the concurrency: a request sends the internal notification
\* only after a lookup that answered ACTIVE
C14OnlyActive ==
    \A r \in Requests : rpc[r] = "warm" => decision[r].answer = ACTIVE

\* C15: a call of ensure_session_transport does not raise, and one whose
\* transport failed to start leaves the engine's mapping as it found it.
CexC15 ==
    \A r \in Requests :
        decision[r].ensure_called =>
            /\ ~decision[r].raised
            /\ decision[r].failed => decision[r].after = decision[r].before

\* C16: a tools/call that arrives after the engine accepted a DELETE of the
\* session is answered 404; and a DELETE answered 405 leaves the engine's
\* mapping and the stored record as they were.
CexC16 ==
    /\ \A r \in Requests :
          (rpc[r] = "done" /\ req[r].method = "tools/call" /\ decision[r].after_delete)
          => resp[r] = 404
    /\ (terminated.done /\ terminated.code = 405)
          => /\ terminated.holds = terminated.held
             /\ terminated.stores = terminated.stored

---------------------------------------------------------------------------
(* utils/resilience.py : with_retries, called on its own                   *)
(* The operation is any coroutine factory: each call of it returns or      *)
(* raises an Exception.  The exception a call raises is named by the       *)
(* number of that call, 0 standing for None.                               *)

MaxTries == 4
MaxBackoffLen == 2

BackoffValues == {10, 20}

\* the backoff_ms arguments: nothing, or a list of delays
BackoffArgs == UNION {[1..k -> BackoffValues] : k \in 0..MaxBackoffLen}

DefaultBackoff == <<100, 500, 2000>>

Min(a, b) == IF a <= b THEN a ELSE b

\* backoff_seq = list(backoff_ms or [100, 500, 2000])
BackoffSeq(backoff_ms) ==
    IF backoff_ms = <<>> THEN DefaultBackoff ELSE backoff_ms

\* a delay that starts the sequence over instead of staying on its last value
DelayMsWrap(backoff_seq, a) == backoff_seq[(a % Len(backoff_seq)) + 1]

\* delay_ms = backoff_seq[min(attempt, len(backoff_seq) - 1)]
DelayMs(backoff_seq, a) == backoff_seq[Min(a, Len(backoff_seq) - 1) + 1]

\* with_retries is called: the state on entering the for loop
RetryStart(attempts, backoff_ms) ==
    [pc |-> "loop", attempts |-> attempts,
     backoff_seq |-> BackoffSeq(backoff_ms),
     attempt |-> 0, last_exc |-> 0,
     calls |-> <<>>, sleeps |-> <<>>, result |-> [kind |-> "none", of |-> 0]]

\* return await coro_factory(): the call returns
RetryCallReturns ==
    /\ retry.pc = "loop"
    /\ retry.attempt < retry.attempts
    /\ retry' = [retry EXCEPT
                   !.calls = Append(@, "returned"),
                   !.result = [kind |-> "return", of |-> Len(retry.calls) + 1],
                   !.pc = "done"]
    /\ UNCHANGED NotRetries

\* coro_factory() raises: the last attempt breaks out of the loop and
\* last_exc is raised, an earlier one sleeps its delay
RetryCallRaises ==
    /\ retry.pc = "loop"
    /\ retry.attempt < retry.attempts
    /\ LET exc == Len(retry.calls) + 1
       IN IF retry.attempt = retry.attempts - 1
          THEN retry' = [retry EXCEPT
                           !.calls = Append(@, "raised"),
                           !.last_exc = exc,
                           !.result = [kind |-> "raise", of |-> exc],
                           !.pc = "done"]
          ELSE retry' = [retry EXCEPT
                           !.calls = Append(@, "raised"),
                           !.last_exc = exc,
                           !.sleeps = Append(@, DelayMs(retry.backoff_seq,
                                                        retry.attempt)),
                           !.pc = "sleep"]
    /\ UNCHANGED NotRetries

\* asyncio.sleep returns and the loop takes its next value
RetryWake ==
    /\ retry.pc = "sleep"
    /\ retry' = [retry EXCEPT !.attempt = @ + 1, !.pc = "loop"]
    /\ UNCHANGED NotRetries

\* range(attempts) is empty: the loop body never runs and the assert on
\* last_exc fails
RetryNoAttempts ==
    /\ retry.pc = "loop"
    /\ retry.attempt >= retry.attempts
    /\ retry' = [retry EXCEPT !.result = [kind |-> "assertion", of |-> 0],
                              !.pc = "done"]
    /\ UNCHANGED NotRetries

InitRetries ==
    /\ retry \in {RetryStart(a, b) : a \in 0..MaxTries, b \in BackoffArgs}
    /\ IdleBreaker
    /\ IdleEvents
    /\ IdleSessions
    /\ IdleWrapper
    /\ IdleReplay
    /\ IdleAdmission
    /\ IdleStorage
    /\ IdleCache
    /\ IdleManager
    /\ IdlePipeline
    /\ IdleFlow

NextRetries ==
    \/ RetryCallReturns
    \/ RetryCallRaises
    \/ RetryWake
    \/ RetryNoAttempts

SpecRetries == InitRetries /\ [][NextRetries]_vars

---------------------------------------------------------------------------
(* Claims about with_retries (SpecRetries) *)

\* the calls that raised
Failures == {i \in 1..Len(retry.calls) : retry.calls[i] = "raised"}

\* C22: with_retries calls the operation at most attempts times; a call
\* that returns is the last call and its value is what with_retries
\* returns; when all attempts calls have raised, with_retries raises the
\* exception of the last one; it has slept once after each failure but the
\* attempts-th, the i-th sleep being the i-th backoff value or, past the end
\* of the sequence, its last value.
ThmC22 ==
    /\ Len(retry.calls) <= retry.attempts
    /\ \A i \in 1..Len(retry.calls) :
          retry.calls[i] = "returned"
          => /\ i = Len(retry.calls)
             /\ retry.result = [kind |-> "return", of |-> i]
    /\ retry.result.kind = "return" => retry.calls[retry.result.of] = "returned"
    /\ (Cardinality(Failures) = retry.attempts /\ retry.attempts > 0)
          => retry.result = [kind |-> "raise", of |-> retry.attempts]
    /\ retry.result.kind = "raise"
          => Cardinality(Failures) = retry.attempts
    /\ Len(retry.sleeps) = Cardinality(Failures \ {retry.attempts})
    /\ \A i \in 1..Len(retry.sleeps) :
          retry.sleeps[i] = retry.backoff_seq[Min(i, Len(retry.backoff_seq))]

\* C22's case: four attempts with a backoff of two values have all failed:
\* the third sleep was past the end of the sequence
WitC22 ==
    /\ retry.pc = "done"
    /\ retry.attempts = 4
    /\ retry.backoff_seq = <<10, 20>>
    /\ retry.result = [kind |-> "raise", of |-> 4]
    /\ retry.sleeps = <<10, 20, 20>>

\* C22's other case: the third of four attempts succeeds after two failures
C22Success ==
    /\ retry.attempts = 4
    /\ retry.calls = <<"raised", "raised", "returned">>
    /\ retry.sleeps = <<10, 10>>
    /\ retry.result = [kind |-> "return", of |-> 3]

---------------------------------------------------------------------------
(* storage/base.py : InMemoryStorage, storage/redis_adapter.py :           *)
(* RedisStorage.  Clients call the store concurrently: tasks of one        *)
(* process for InMemoryStorage, whose methods never suspend, and tasks of  *)
(* any node for RedisStorage, whose methods suspend at each Redis command. *)

MaxStream == 1

Clients == {"c1", "c2"}

\* the session id the clients work on, and one nobody creates
StoreIds == {"S"}
OtherIds == {"T"}

\* a SessionStatus member, and the plain string json.loads gives back:
\* SessionStatus is a str subclass, so the two compare equal in Python
Enum(v) == [enum |-> TRUE, value |-> v]
Plain(v) == [enum |-> FALSE, value |-> v]

Fields == {"id", "status", "client_id", "server_id", "capabilities",
           "metadata", "created_at", "updated_at", "last_event_id"}

\* an MCPSession as the interceptor builds it
Session(session_id, status, client_id) ==
    [id |-> session_id, status |-> status, client_id |-> client_id,
     server_id |-> "n1", capabilities |-> "{}", metadata |-> "{}",
     created_at |-> 0, updated_at |-> 0, last_event_id |-> None]

\* the sessions the clients create
NewSessions(ids) ==
    {Session(i, Enum(st), "client-1") : i \in ids, st \in {INITIALIZING, ACTIVE}}

\* the updates the clients make: each a dict of one field
UpdateArgs ==
    {[status |-> Enum(CLOSED_STATUS)], [client_id |-> "client-2"],
     [last_event_id |-> "e1"]}

\* more dicts, of one or two fields
AllUpdates ==
    UpdateArgs
    \cup {[status |-> Enum(ACTIVE), client_id |-> "client-2"],
          [status |-> Plain(ACTIVE), last_event_id |-> "e1"],
          [client_id |-> "client-3", last_event_id |-> None]}

\* Optional[MCPSession]
NoSession == [found |-> FALSE]
Found(session) == [found |-> TRUE, session |-> session]

\* Python's == on two values of the named field
ValueEq(f, x, y) == IF f = "status" THEN x.value = y.value ELSE x = y

\* MCPSession.__eq__: the dataclass compares field by field
SessionEq(a, b) == \A f \in Fields : ValueEq(f, a[f], b[f])

\* dict.setdefault(key, default)
SetDefault(d, k, v) == IF k \in DOMAIN d THEN d ELSE Put(d, k, v)

\* an update that keeps only the fields it is given and clears the others
MergeOnly(session, updates) ==
    [f \in DOMAIN session |->
        IF f \in DOMAIN updates THEN updates[f]
        ELSE IF f = "status" THEN Plain(None) ELSE None]

\* for key, value in updates.items(): setattr(session, key, value)
\* and data.update(updates)
Merge(session, updates) ==
    [f \in DOMAIN session |->
        IF f \in DOMAIN updates THEN updates[f] ELSE session[f]]

\* json.dumps(asdict(session)), as the data the text denotes: a
\* SessionStatus member is written as its string value
Dumps(session) == [session EXCEPT !.status = Plain(@.value)]

\* MCPSession(**json.loads(raw))
Loads(raw) == raw

\* the store: the adapter in use, its session records and event streams
Store(a, ss, ev) == [adapter |-> a, sessions |-> ss, events |-> ev]

\* create_session
MemCreateSession(k, session) ==
    Store(k.adapter, Put(k.sessions, session.id, session),
          SetDefault(k.events, session.id, <<>>))

RedisCreateSession(k, session) ==
    Store(k.adapter, Put(k.sessions, session.id, Dumps(session)), k.events)

CreateSessionOn(k, session) ==
    IF k.adapter = "memory" THEN MemCreateSession(k, session)
    ELSE RedisCreateSession(k, session)

\* get_session
GetSessionOn(k, session_id) ==
    IF session_id \notin DOMAIN k.sessions THEN NoSession
    ELSE IF k.adapter = "memory" THEN Found(k.sessions[session_id])
    ELSE Found(Loads(k.sessions[session_id]))

\* InMemoryStorage.update_session
MemUpdateSession(k, session_id, updates) ==
    IF session_id \notin DOMAIN k.sessions THEN k
    ELSE Store(k.adapter,
               Put(k.sessions, session_id, Merge(k.sessions[session_id], updates)),
               k.events)

\* RedisStorage.update_session up to its second await: raw = redis.get(key)
RedisUpdateRead(k, session_id) ==
    IF session_id \in DOMAIN k.sessions THEN Found(k.sessions[session_id])
    ELSE NoSession

\* RedisStorage.update_session from there: data.update(updates), redis.set
RedisUpdateWrite(k, session_id, raw, updates) ==
    IF ~raw.found THEN k
    ELSE Store(k.adapter,
               Put(k.sessions, session_id, Dumps(Merge(raw.session, updates))),
               k.events)

\* update_session run without another call in between
UpdateSessionOn(k, session_id, updates) ==
    IF k.adapter = "memory" THEN MemUpdateSession(k, session_id, updates)
    ELSE RedisUpdateWrite(k, session_id, RedisUpdateRead(k, session_id), updates)

\* delete_session: the record, then the event stream
DeleteRecord(k, session_id) ==
    Store(k.adapter, Pop(k.sessions, session_id), k.events)

DeleteStream(k, session_id) ==
    Store(k.adapter, k.sessions, Pop(k.events, session_id))

\* delete_session run without another call in between
DeleteSessionOn(k, session_id) ==
    DeleteStream(DeleteRecord(k, session_id), session_id)

\* append_event: setdefault(...).append(event), or XADD
AppendEventOn(k, session_id, event_id) ==
    Store(k.adapter, k.sessions,
          Put(k.events, session_id,
              Append(IF session_id \in DOMAIN k.events
                     THEN k.events[session_id] ELSE <<>>, event_id)))

\* get_events(session_id): the events it yields, none for a missing stream
GetEventsOn(k, session_id) ==
    IF session_id \in DOMAIN k.events THEN k.events[session_id] ELSE <<>>

\* the store as the adapter's methods see it
K == Store(adapter, sessions, events)

\* a client that is in no storage call
IdleOp == [pc |-> "idle", id |-> None, raw |-> NoSession, updates |-> <<>>,
           undisturbed |-> TRUE]

\* a create_session or append_event has run: the delete_session calls that
\* are between their two steps are no longer the only writers of the
\* record and the stream
Disturbed ==
    [c \in Clients |->
        IF ops[c].pc = "delete_stream"
        THEN [ops[c] EXCEPT !.undisturbed = FALSE] ELSE ops[c]]

\* no update_session has completed since the record was created or deleted
NoUpdates == [spoiled |-> FALSE, done |-> <<>>]

\* no delete_session has just returned
NotDeleted == [done |-> FALSE]

\* client c's update_session has written: remembered once per client
Completed(c, updates) ==
    IF c \in DOMAIN updated.done
    THEN [updated EXCEPT !.spoiled = TRUE]
    ELSE [updated EXCEPT !.done = Put(@, c, updates)]

\* what a delete_session that returns leaves of the session it deleted
Left(k, session_id, undisturbed) ==
    [done |-> TRUE, id |-> session_id, undisturbed |-> undisturbed,
     record_left |-> session_id \in DOMAIN k.sessions,
     stream_left |-> session_id \in DOMAIN k.events]

\* create_session: one step on either adapter
StoreCreate(c, session) ==
    /\ ops[c].pc = "idle"
    /\ LET k1 == CreateSessionOn(K, session)
       IN /\ sessions' = k1.sessions
          /\ events' = k1.events
    /\ ops' = Disturbed
    /\ updated' = NoUpdates
    /\ deleted' = NotDeleted
    /\ UNCHANGED adapter
    /\ UNCHANGED NotStorage

\* append_event: one step on either adapter
StoreAppend(c, session_id) ==
    /\ ops[c].pc = "idle"
    /\ Len(GetEventsOn(K, session_id)) < MaxStream
    /\ LET k1 == AppendEventOn(K, session_id, "e1")
       IN /\ sessions' = k1.sessions
          /\ events' = k1.events
    /\ ops' = Disturbed
    /\ deleted' = NotDeleted
    /\ UNCHANGED <<adapter, updated>>
    /\ UNCHANGED NotStorage

\* update_session is called: InMemoryStorage runs it to its end,
\* RedisStorage suspends after its GET with raw in hand
StoreUpdateBegin(c, session_id, updates) ==
    /\ ops[c].pc = "idle"
    /\ IF adapter = "memory"
       THEN LET k1 == MemUpdateSession(K, session_id, updates)
            IN /\ sessions' = k1.sessions
               /\ events' = k1.events
               /\ ops' = ops
               /\ updated' = IF session_id \in DOMAIN sessions
                             THEN Completed(c, updates) ELSE updated
       ELSE LET raw == RedisUpdateRead(K, session_id)
            IN /\ ops' = IF raw.found
                         THEN [ops EXCEPT ![c] =
                                 [pc |-> "update_write", id |-> session_id,
                                  raw |-> raw, updates |-> updates,
                                  undisturbed |-> TRUE]]
                         ELSE ops
               /\ UNCHANGED <<sessions, events, updated>>
    /\ deleted' = NotDeleted
    /\ UNCHANGED adapter
    /\ UNCHANGED NotStorage

\* RedisStorage.update_session resumes: data.update(updates) and the SET
StoreUpdateWrite(c) ==
    /\ ops[c].pc = "update_write"
    /\ LET k1 == RedisUpdateWrite(K, ops[c].id, ops[c].raw, ops[c].updates)
       IN /\ sessions' = k1.sessions
          /\ events' = k1.events
    /\ ops' = [ops EXCEPT ![c] = IdleOp]
    /\ updated' = Completed(c, ops[c].updates)
    /\ deleted' = NotDeleted
    /\ UNCHANGED adapter
    /\ UNCHANGED NotStorage

\* delete_session is called: InMemoryStorage pops both dicts and returns,
\* RedisStorage deletes the session key and suspends
StoreDeleteBegin(c, session_id) ==
    /\ ops[c].pc = "idle"
    /\ IF adapter = "memory"
       THEN LET k1 == DeleteSessionOn(K, session_id)
            IN /\ sessions' = k1.sessions
               /\ events' = k1.events
               /\ ops' = ops
               /\ deleted' = Left(k1, session_id, TRUE)
       ELSE LET k1 == DeleteRecord(K, session_id)
            IN /\ sessions' = k1.sessions
               /\ events' = k1.events
               /\ ops' = [ops EXCEPT ![c] =
                            [IdleOp EXCEPT !.pc = "delete_stream",
                                           !.id = session_id]]
               /\ deleted' = NotDeleted
    /\ updated' = NoUpdates
    /\ UNCHANGED adapter
    /\ UNCHANGED NotStorage

\* RedisStorage.delete_session resumes: it deletes the stream and returns
StoreDeleteEnd(c) ==
    /\ ops[c].pc = "delete_stream"
    /\ LET k1 == DeleteStream(K, ops[c].id)
       IN /\ sessions' = k1.sessions
          /\ events' = k1.events
          /\ deleted' = Left(k1, ops[c].id, ops[c].undisturbed)
    /\ ops' = [ops EXCEPT ![c] = IdleOp]
    /\ updated' = NoUpdates
    /\ UNCHANGED adapter
    /\ UNCHANGED NotStorage

InitStorage ==
    /\ adapter \in {"memory", "redis"}
    /\ sessions = <<>>
    /\ events = <<>>
    /\ ops = [c \in Clients |-> IdleOp]
    /\ deleted = NotDeleted
    /\ updated = NoUpdates
    /\ IdleBreaker
    /\ IdleEvents
    /\ IdleSessions
    /\ IdleWrapper
    /\ IdleReplay
    /\ IdleAdmission
    /\ IdleRetries
    /\ IdleCache
    /\ IdleManager
    /\ IdlePipeline
    /\ IdleFlow

NextStorage ==
    \/ \E c \in Clients, s \in NewSessions(StoreIds) : StoreCreate(c, s)
    \/ \E c \in Clients, i \in StoreIds : StoreAppend(c, i)
    \/ \E c \in Clients, i \in StoreIds, u \in UpdateArgs :
          StoreUpdateBegin(c, i, u)
    \/ \E c \in Clients : StoreUpdateWrite(c)
    \/ \E c \in Clients, i \in StoreIds : StoreDeleteBegin(c, i)
    \/ \E c \in Clients : StoreDeleteEnd(c)

SpecStorage == InitStorage /\ [][NextStorage]_vars

---------------------------------------------------------------------------
(* Claims about the session store (SpecStorage) *)

\* C23: from any state of the store, with no other call in between:
\* create_session(s) then get_session(s.id) returns a record equal to s;
\* update_session(id, D) on an id the store holds then get_session(id)
\* returns a record with D's value in every field of D and the earlier
\* value in every other field; update_session on an id the store does not
\* hold leaves the store as it was; delete_session(id) then get_session(id)
\* returns none and get_events(id) yields nothing.
ThmC23 ==
    /\ \A s \in NewSessions(StoreIds \cup OtherIds) :
          LET back == GetSessionOn(CreateSessionOn(K, s), s.id)
          IN back.found /\ SessionEq(back.session, s)
    /\ \A i \in StoreIds \cup OtherIds, u \in AllUpdates :
          IF i \in DOMAIN sessions
          THEN LET before == GetSessionOn(K, i).session
                   back == GetSessionOn(UpdateSessionOn(K, i, u), i)
               IN /\ back.found
                  /\ \A f \in Fields :
                        IF f \in DOMAIN u THEN ValueEq(f, back.session[f], u[f])
                        ELSE back.session[f] = before[f]
          ELSE UpdateSessionOn(K, i, u) = K
    /\ \A i \in StoreIds \cup OtherIds :
          LET k1 == DeleteSessionOn(K, i)
          IN /\ GetSessionOn(k1, i) = NoSession
             /\ GetEventsOn(k1, i) = <<>>

\* C23's case: on Redis the store holds a record that was created and then
\* updated twice, with an event on its stream, while the other id is absent
WitC23 ==
    /\ adapter = "redis"
    /\ "S" \in DOMAIN sessions
    /\ sessions["S"].status = Plain(CLOSED_STATUS)
    /\ sessions["S"].client_id = "client-2"
    /\ GetEventsOn(K, "S") # <<>>
    /\ "T" \notin DOMAIN sessions
    /\ \A c \in Clients : ops[c].pc = "idle"

\* C24: when each of the two clients has completed one update_session on
\* the session since its record was last created or deleted, and the two
\* updates name different fields, the stored record carries the values of
\* both.
CexC24 ==
    (/\ ~updated.spoiled
     /\ DOMAIN updated.done = Clients
     /\ \A c, d \in Clients :
           c # d => DOMAIN updated.done[c] \cap DOMAIN updated.done[d] = {})
    => /\ "S" \in DOMAIN sessions
       /\ \A c \in Clients : \A f \in DOMAIN updated.done[c] :
             ValueEq(f, sessions["S"][f], updated.done[c][f])

\* C24 on InMemoryStorage, whose update_session never suspends
C24Memory == adapter = "memory" => CexC24

\* C25: while a delete_session is between its two steps, and no
\* create_session or append_event has run since it began, no state shows
\* the session's record gone and its event stream still there; and such a
\* delete_session, once it returns, leaves neither the record nor the
\* stream.
CexC25 ==
    /\ \A c \in Clients :
          (ops[c].pc = "delete_stream" /\ ops[c].undisturbed)
          => ~(ops[c].id \notin DOMAIN sessions /\ ops[c].id \in DOMAIN events)
    /\ (deleted.done /\ deleted.undisturbed)
          => (~deleted.record_left /\ ~deleted.stream_left)

\* C25 on InMemoryStorage, whose delete_session never suspends
C25Memory == adapter = "memory" => CexC25

\* C25's second half alone: what a returning delete_session leaves
C25Returned ==
    (deleted.done /\ deleted.undisturbed)
    => (~deleted.record_left /\ ~deleted.stream_left)

\* C25's second half when no update_session is running either
C25ReturnedAlone ==
    (/\ deleted.done
     /\ deleted.undisturbed
     /\ \A c \in Clients : ops[c].pc # "update_write")
    => ~deleted.stream_left

---------------------------------------------------------------------------
(* cache/l1_cache.py : TTLCache                                            *)
(* _store is an OrderedDict: here the sequence of its entries, oldest      *)
(* first.  Next to it runs a history that does not look at that order: the *)
(* number of the operation that last used each key.                        *)

MaxSize == 2
MaxCacheOps == 5
MaxClock == 2

CacheKeys == {"k1", "k2", "k3"}

\* the position of key in the OrderedDict, 0 if it has none
OdIndex(od, key) ==
    IF \E i \in 1..Len(od) : od[i].key = key
    THEN CHOOSE i \in 1..Len(od) : od[i].key = key
    ELSE 0

\* od.pop(key, None)
OdPop(od, key) == SelectSeq(od, LAMBDA e : e.key # key)

\* od[key] = item: a new key goes to the end, an old one keeps its place
OdSetItem(od, item) ==
    IF OdIndex(od, item.key) = 0 THEN Append(od, item)
    ELSE [od EXCEPT ![OdIndex(od, item.key)] = item]

\* a move_to_end that leaves the key where it is
OdStay(od, key) == od

\* od.move_to_end(key)
OdMoveToEnd(od, key) == Append(OdPop(od, key), od[OdIndex(od, key)])

\* od.popitem(last=False)
OdPopFirst(od) == Tail(od)

\* the keys of the OrderedDict
OdKeys(od) == {od[i].key : i \in 1..Len(od)}

\* no set has just evicted an entry
NoEviction == [done |-> FALSE]

\* what get returns: None, or the cached value
Miss == [hit |-> FALSE]
Hit(value) == [hit |-> TRUE, value |-> value]

\* TTLCache(max_size, ttl_seconds)
NewCache(max_size, ttl_seconds) ==
    [store |-> <<>>, max_size |-> max_size, ttl |-> ttl_seconds, now |-> 0,
     used |-> <<>>, tick |-> 0, evicted |-> NoEviction, returned |-> Miss]

\* TTLCache.get: the cache afterwards, with what the call returned
TtlGet(c, key) ==
    LET i == OdIndex(c.store, key)
    IN IF i = 0
       THEN [c EXCEPT !.tick = @ + 1, !.evicted = NoEviction,
                      !.returned = Miss]
       ELSE IF c.store[i].expires_at < c.now
       THEN [c EXCEPT !.store = OdPop(@, key), !.used = Pop(@, key),
                      !.tick = @ + 1, !.evicted = NoEviction,
                      !.returned = Miss]
       ELSE [c EXCEPT !.store = OdMoveToEnd(@, key),
                      !.used = Put(@, key, c.tick + 1),
                      !.tick = @ + 1, !.evicted = NoEviction,
                      !.returned = Hit(c.store[i].value)]

\* TTLCache.set with the default ttl
TtlSet(c, key, value) ==
    LET item == [key |-> key, expires_at |-> c.now + c.ttl, value |-> value]
        od1 == OdMoveToEnd(OdSetItem(c.store, item), key)
        used1 == Put(c.used, key, c.tick + 1)
    IN IF Len(od1) > c.max_size
       THEN [c EXCEPT !.store = OdPopFirst(od1),
                      !.used = Pop(used1, od1[1].key),
                      !.tick = @ + 1,
                      !.evicted = [done |-> TRUE, key |-> od1[1].key,
                                   set |-> key, used |-> used1],
                      !.returned = Miss]
       ELSE [c EXCEPT !.store = od1, !.used = used1, !.tick = @ + 1,
                      !.evicted = NoEviction, !.returned = Miss]

\* TTLCache.delete
TtlDelete(c, key) ==
    [c EXCEPT !.store = OdPop(@, key),
              !.used = IF key \in DOMAIN @ THEN Pop(@, key) ELSE @,
              !.tick = @ + 1, !.evicted = NoEviction, !.returned = Miss]

CacheGet(key) ==
    /\ l1.tick < MaxCacheOps
    /\ l1' = TtlGet(l1, key)
    /\ UNCHANGED NotCache

CacheSet(key, value) ==
    /\ l1.tick < MaxCacheOps
    /\ l1' = TtlSet(l1, key, value)
    /\ UNCHANGED NotCache

CacheDelete(key) ==
    /\ l1.tick < MaxCacheOps
    /\ l1' = TtlDelete(l1, key)
    /\ UNCHANGED NotCache

\* time.time() moves on
CacheTick ==
    /\ l1.now < MaxClock
    /\ l1' = [l1 EXCEPT !.now = @ + 1, !.evicted = NoEviction]
    /\ UNCHANGED NotCache

InitCache ==
    /\ l1 \in {NewCache(n, t) : n \in 1..MaxSize, t \in 0..1}
    /\ IdleBreaker
    /\ IdleEvents
    /\ IdleSessions
    /\ IdleWrapper
    /\ IdleReplay
    /\ IdleAdmission
    /\ IdleRetries
    /\ IdleStorage
    /\ IdleManager
    /\ IdlePipeline
    /\ IdleFlow

NextCache ==
    \/ \E k \in CacheKeys : CacheGet(k)
    \/ \E k \in CacheKeys : CacheSet(k, "v1")
    \/ \E k \in CacheKeys : CacheDelete(k)
    \/ CacheTick

SpecCache == InitCache /\ [][NextCache]_vars

---------------------------------------------------------------------------
(* Claims about the local cache (SpecCache) *)

\* C26: the cache never holds more than max_size entries, and the entry a
\* set evicts is, of the entries held once the key was set, the one whose
\* last use - a get that returned it or a set - is the oldest.
ThmC26 ==
    /\ Len(l1.store) <= l1.max_size
    /\ OdKeys(l1.store) = DOMAIN l1.used
    /\ l1.evicted.done
          => \A k \in DOMAIN l1.evicted.used :
                l1.evicted.used[l1.evicted.key] <= l1.evicted.used[k]

\* C26's case: a set has just evicted an entry that was not the oldest
\* insertion: the older one had been read since
WitC26 ==
    /\ l1.max_size = 2
    /\ l1.evicted.done
    /\ l1.evicted.key = "k2"
    /\ l1.evicted.set = "k3"
    /\ OdKeys(l1.store) = {"k1", "k3"}
    /\ l1.store[1].key = "k1"
    /\ l1.tick = 4

---------------------------------------------------------------------------
(* core/session_manager.py : SessionManager with use_local_cache=True,     *)
(* over the cache (l1) and the store (adapter, sessions, events) above.    *)
(* The store answers every call, so breaker.run and with_retries pass each *)
(* call through; other nodes write to the store behind this node's cache.  *)

ManagerIds == {"S", "T"}

\* the sessions this node and the others create, and the update they make
ManagerSessions == {Session(i, Enum(ACTIVE), "client-1") : i \in ManagerIds}
ManagerUpdates == {[status |-> Enum(CLOSED_STATUS)]}

\* no SessionManager.get has just returned
NoGet == [done |-> FALSE]

\* the value the cache holds for key and has not let expire
LiveValue(c, key) ==
    IF \E i \in 1..Len(c.store) :
          c.store[i].key = key /\ c.store[i].expires_at >= c.now
    THEN Hit(c.store[OdIndex(c.store, key)].value)
    ELSE Miss

\* a get that asks the store every time
SessionManagerGetStore(c, k, session_id) ==
    LET session == GetSessionOn(k, session_id)
    IN [cache |-> IF session.found THEN TtlSet(c, session_id, session.session)
                  ELSE c,
        result |-> session, store_calls |-> 1]

\* SessionManager.get: the cache afterwards, what is returned, and the
\* number of get_session calls made
SessionManagerGet(c, k, session_id) ==
    LET c1 == TtlGet(c, session_id)
    IN IF c1.returned.hit
       THEN [cache |-> c1, result |-> Found(c1.returned.value),
             store_calls |-> 0]
       ELSE LET session == GetSessionOn(k, session_id)
            IN [cache |-> IF session.found
                          THEN TtlSet(c1, session_id, session.session)
                          ELSE c1,
                result |-> session, store_calls |-> 1]

\* SessionManager.get
MgrGet(session_id) ==
    /\ l1.tick + 2 <= MaxCacheOps
    /\ LET r == SessionManagerGet(l1, K, session_id)
       IN /\ l1' = r.cache
          /\ got' = [done |-> TRUE, id |-> session_id,
                     live |-> LiveValue(l1, session_id),
                     stored |-> GetSessionOn(K, session_id),
                     result |-> r.result, store_calls |-> r.store_calls,
                     after |-> LiveValue(r.cache, session_id)]
    /\ UNCHANGED varsK
    /\ UNCHANGED <<varsB, varsE, varsS, varsW, varsR, varsA, varsT, varsH, varsF>>

\* SessionManager.create: create_session, then cache.set
MgrCreate(session) ==
    /\ l1.tick + 1 <= MaxCacheOps
    /\ LET k1 == CreateSessionOn(K, session)
       IN /\ sessions' = k1.sessions
          /\ events' = k1.events
    /\ l1' = TtlSet(l1, session.id, session)
    /\ got' = NoGet
    /\ UNCHANGED <<adapter, ops, deleted, updated>>
    /\ UNCHANGED <<varsB, varsE, varsS, varsW, varsR, varsA, varsT, varsH, varsF>>

\* SessionManager.update: update_session, then the cache is refreshed from
\* the store when the store has the record
MgrUpdate(session_id, updates) ==
    /\ l1.tick + 1 <= MaxCacheOps
    /\ LET k1 == UpdateSessionOn(K, session_id, updates)
           session == GetSessionOn(k1, session_id)
       IN /\ sessions' = k1.sessions
          /\ events' = k1.events
          /\ l1' = IF session.found
                   THEN TtlSet(l1, session_id, session.session) ELSE l1
    /\ got' = NoGet
    /\ UNCHANGED <<adapter, ops, deleted, updated>>
    /\ UNCHANGED <<varsB, varsE, varsS, varsW, varsR, varsA, varsT, varsH, varsF>>

\* SessionManager.delete: delete_session, then cache.delete
MgrDelete(session_id) ==
    /\ l1.tick + 1 <= MaxCacheOps
    /\ LET k1 == DeleteSessionOn(K, session_id)
       IN /\ sessions' = k1.sessions
          /\ events' = k1.events
    /\ l1' = TtlDelete(l1, session_id)
    /\ got' = NoGet
    /\ UNCHANGED <<adapter, ops, deleted, updated>>
    /\ UNCHANGED <<varsB, varsE, varsS, varsW, varsR, varsA, varsT, varsH, varsF>>

\* another node's manager creates, updates or deletes a session in Redis:
\* the store changes, this node's cache does not.  (An InMemoryStorage
\* belongs to one process, and the records it hands out are the objects it
\* holds.)
RemoteWrite(k1) ==
    /\ adapter = "redis"
    /\ k1 # K
    /\ sessions' = k1.sessions
    /\ events' = k1.events
    /\ got' = NoGet
    /\ UNCHANGED <<adapter, ops, deleted, updated, l1>>
    /\ UNCHANGED <<varsB, varsE, varsS, varsW, varsR, varsA, varsT, varsH, varsF>>

InitManager ==
    /\ l1 \in {NewCache(n, t) : n \in 1..MaxSize, t \in 0..1}
    /\ adapter \in {"memory", "redis"}
    /\ sessions = <<>>
    /\ events = <<>>
    /\ ops = [c \in Clients |-> IdleOp]
    /\ deleted = NotDeleted
    /\ updated = NoUpdates
    /\ got = NoGet
    /\ IdleBreaker
    /\ IdleEvents
    /\ IdleSessions
    /\ IdleWrapper
    /\ IdleReplay
    /\ IdleAdmission
    /\ IdleRetries
    /\ IdlePipeline
    /\ IdleFlow

NextManager ==
    \/ \E i \in ManagerIds : MgrGet(i)
    \/ \E s \in ManagerSessions : MgrCreate(s)
    \/ \E i \in ManagerIds, u \in ManagerUpdates : MgrUpdate(i, u)
    \/ \E i \in ManagerIds : MgrDelete(i)
    \/ \E s \in ManagerSessions : RemoteWrite(CreateSessionOn(K, s))
    \/ \E i \in ManagerIds, u \in ManagerUpdates :
          RemoteWrite(UpdateSessionOn(K, i, u))
    \/ \E i \in ManagerIds : RemoteWrite(DeleteSessionOn(K, i))
    \/ CacheTick

SpecManager == InitManager /\ [][NextManager]_vars

---------------------------------------------------------------------------
(* Claims about the session manager's cache (SpecManager) *)

\* C27: a SessionManager.get for an id whose record the cache holds and has
\* not let expire returns that cached record and makes no get_session
\* call; any other get makes one get_session call and returns what the
\* store holds: a record, which the cache then holds, or none, and then the
\* cache holds nothing for the id.
ThmC27 ==
    got.done =>
        /\ got.live.hit
             => /\ got.result = Found(got.live.value)
                /\ got.store_calls = 0
                /\ got.after = got.live
        /\ ~got.live.hit
             => /\ got.store_calls = 1
                /\ got.result = got.stored
                /\ got.stored.found => got.after = Hit(got.stored.session)
                /\ ~got.stored.found
                     => (got.result = NoSession /\ got.after = Miss)

\* C27's cases: a hit on a record that another node has since closed in the
\* store, and a miss on an id the store does not hold
WitC27 ==
    /\ adapter = "redis"
    /\ got.done
    /\ got.live.hit
    /\ got.stored.found
    /\ got.stored.session.status.value = CLOSED_STATUS
    /\ got.result.session.status.value = ACTIVE
    /\ got.store_calls = 0

C27Absent ==
    /\ got.done
    /\ ~got.live.hit
    /\ ~got.stored.found
    /\ got.result = NoSession
    /\ Len(l1.store) > 0

----------------------------------------------------------------------------
(* ASGITransportWrapper.wrap: one HTTP request from the interception of   *)
(* its body to the last response message (SpecPipeline)                   *)

\* the body chunks a response has at most
MaxChunks == 2

ContentTypes == {"application/json", "text/event-stream", "text/plain"}

ResponseStart(content_type, sid) ==
    [type |-> "http.response.start", content_type |-> content_type, sid |-> sid,
     body |-> "", more_body |-> FALSE]

ResponseBody(body, more_body) ==
    [type |-> "http.response.body", content_type |-> "", sid |-> FALSE,
     body |-> body, more_body |-> more_body]

\* the messages an engine may pass to send()
ResponseMessages ==
    { ResponseStart(ct, sid) : ct \in ContentTypes, sid \in BOOLEAN }
    \cup { ResponseBody(b, more) : b \in {"", "data: {}"}, more \in BOOLEAN }

\* what the methods of a request body give the admission step
HttpMethods == {"initialize", "notifications/initialized", "tools/call", None}

\* wrapped_send shows the message to handle_outgoing: a complete JSON body,
\* or a chunk of an event stream that has a data line
Observes(message, content_type, session_id) ==
    /\ message.type = "http.response.body"
    /\ session_id
    /\ \/ content_type = "application/json" /\ ~message.more_body
       \/ content_type = "text/event-stream" /\ message.body # ""

\* a wrapped_send that lets the observer's error end the call
WrappedSendRaises(message, content_type, session_id, observer_raises) ==
    [sends |-> IF Observes(message, content_type, session_id) /\ observer_raises
               THEN <<>> ELSE <<message>>,
     content_type |-> IF message.type = "http.response.start"
                      THEN message.content_type ELSE content_type,
     session_id |-> IF message.type = "http.response.start"
                    THEN session_id \/ message.sid ELSE session_id,
     swallowed |-> FALSE]

\* wrapped_send: the content type and the session id of the response start
\* are kept, the observer's error is swallowed, and send(message) is called
\* with the message the engine gave
WrappedSend(message, content_type, session_id, observer_raises) ==
    [sends |-> <<message>>,
     content_type |-> IF message.type = "http.response.start"
                      THEN message.content_type ELSE content_type,
     session_id |-> IF message.type = "http.response.start"
                    THEN session_id \/ message.sid ELSE session_id,
     swallowed |-> Observes(message, content_type, session_id) /\ observer_raises]

\* the request as the wrapper meets it, the body drained
NewRequest(method, session_id, admission, has_session, is_warmed) ==
    [pc |-> "intercept", method |-> method, session_id |-> session_id,
     admission |-> admission, has_session |-> has_session, warmed |-> is_warmed,
     status |-> None, content_type |-> "", log |-> <<>>, raised |-> {},
     engine_sent |-> <<>>, client_got |-> <<>>, warm_sent |-> 0]

\* the interception block: handle_incoming and the extraction of the
\* session id, whose errors fall back to the original body
HttpIntercept(interceptor_raises) ==
    /\ http.pc = "intercept"
    /\ http' = [http EXCEPT
                  !.pc = "admit",
                  !.log = Append(@, "intercept"),
                  !.raised = IF interceptor_raises /\ http.method # None
                             THEN @ \cup {"interceptor"} ELSE @]
    /\ UNCHANGED NotPipeline

\* maybe_admit_and_warm up to the session lookup: it returns at once when
\* there is no admission controller, for an initialize, without a session
\* id, and when the engine holds the session
HttpAdmit ==
    /\ http.pc = "admit"
    /\ IF \/ ~http.admission
          \/ http.method = "initialize"
          \/ ~http.session_id
          \/ http.has_session
       THEN http' = [http EXCEPT !.pc = "engine", !.log = Append(@, "admit")]
       ELSE http' = [http EXCEPT !.pc = "lookup"]
    /\ UNCHANGED NotPipeline

\* the session lookup answers a record (status) or None, or raises, which
\* counts as None; INITIALIZING and CLOSED records end the admission
HttpLookup(lookup_raises, status) ==
    /\ http.pc = "lookup"
    /\ LET sess_obj == IF lookup_raises THEN None ELSE status
           raised == IF lookup_raises THEN http.raised \cup {"lookup"} ELSE http.raised
       IN  IF sess_obj = None \/ sess_obj \in {INITIALIZED, ACTIVE}
           THEN http' = [http EXCEPT !.pc = "ensure", !.status = sess_obj,
                                     !.raised = raised]
           ELSE http' = [http EXCEPT !.pc = "engine", !.status = sess_obj,
                                     !.raised = raised,
                                     !.log = Append(@, "admit")]
    /\ UNCHANGED NotPipeline

\* ensure_session_transport returns or raises; an ACTIVE session that this
\* node has not warmed goes on to the warming
HttpEnsure(ensure_raises) ==
    /\ http.pc = "ensure"
    /\ IF ensure_raises
       THEN http' = [http EXCEPT !.pc = "engine", !.raised = @ \cup {"admission"},
                                 !.log = Append(@, "admit")]
       ELSE IF http.status = ACTIVE /\ ~http.warmed
       THEN http' = [http EXCEPT !.pc = "warm", !.has_session = TRUE]
       ELSE http' = [http EXCEPT !.pc = "engine", !.has_session = TRUE,
                                 !.log = Append(@, "admit")]
    /\ UNCHANGED NotPipeline

\* _send_internal_initialized: the engine is called with the synthesized
\* request, what it sends goes to warm_send, which drops it, and its error
\* is swallowed; the id is marked warmed
HttpWarm(warm_raises, replies) ==
    /\ http.pc = "warm"
    /\ http' = [http EXCEPT !.pc = "engine", !.warmed = TRUE,
                            !.warm_sent = replies,
                            !.raised = IF warm_raises THEN @ \cup {"warming"} ELSE @,
                            !.log = @ \o <<"warm_call", "admit">>]
    /\ UNCHANGED NotPipeline

\* inner_app(scope, wrapped_receive, wrapped_send) is called
HttpInvoke ==
    /\ http.pc = "engine"
    /\ http' = [http EXCEPT !.pc = "serving", !.log = Append(@, "engine_call")]
    /\ UNCHANGED NotPipeline

\* the body chunks the engine has sent
Chunks(msgs) == Len(SelectSeq(msgs, LAMBDA m : m.type = "http.response.body"))

\* the response is complete: its last body chunk had more_body false
Complete(msgs) ==
    /\ msgs # <<>>
    /\ msgs[Len(msgs)].type = "http.response.body"
    /\ ~msgs[Len(msgs)].more_body

\* the engine passes a message to wrapped_send: the response start first,
\* then body chunks up to the one that has more_body false
HttpSend(message, observer_raises) ==
    /\ http.pc = "serving"
    /\ ~Complete(http.engine_sent)
    /\ IF http.engine_sent = <<>>
       THEN message.type = "http.response.start"
       ELSE /\ message.type = "http.response.body"
            /\ Chunks(http.engine_sent) < MaxChunks
            /\ Chunks(http.engine_sent) = MaxChunks - 1 => ~message.more_body
    /\ LET w == WrappedSend(message, http.content_type, http.session_id,
                            observer_raises)
       IN  http' = [http EXCEPT
                      !.engine_sent = Append(@, message),
                      !.client_got = @ \o w.sends,
                      !.content_type = w.content_type,
                      !.session_id = w.session_id,
                      !.raised = IF w.swallowed THEN @ \cup {"observer"} ELSE @]
    /\ UNCHANGED NotPipeline

\* the engine returns and the wrapper's call ends
HttpReturn ==
    /\ http.pc = "serving"
    /\ Complete(http.engine_sent)
    /\ http' = [http EXCEPT !.pc = "done"]
    /\ UNCHANGED NotPipeline

InitPipeline ==
    /\ http \in { NewRequest(method, session_id, admission, has_session, is_warmed) :
                    method \in HttpMethods,
                    session_id \in BOOLEAN, admission \in BOOLEAN,
                    has_session \in BOOLEAN, is_warmed \in BOOLEAN }
    /\ IdleBreaker
    /\ IdleEvents
    /\ IdleSessions
    /\ IdleWrapper
    /\ IdleReplay
    /\ IdleAdmission
    /\ IdleRetries
    /\ IdleStorage
    /\ IdleCache
    /\ IdleManager
    /\ IdleFlow

NextPipeline ==
    \/ \E interceptor_raises \in BOOLEAN : HttpIntercept(interceptor_raises)
    \/ HttpAdmit
    \/ \E lookup_raises \in BOOLEAN, status \in Statuses \cup {None} :
            HttpLookup(lookup_raises, status)
    \/ \E ensure_raises \in BOOLEAN : HttpEnsure(ensure_raises)
    \/ \E warm_raises \in BOOLEAN, replies \in 0..MaxChunks :
            HttpWarm(warm_raises, replies)
    \/ HttpInvoke
    \/ \E message \in ResponseMessages, observer_raises \in BOOLEAN :
            HttpSend(message, observer_raises)
    \/ HttpReturn

SpecPipeline == InitPipeline /\ [][NextPipeline]_vars

----------------------------------------------------------------------------
(* Claims about one request's way through the wrapper (SpecPipeline) *)

\* how often the step is in the request's log
Calls(steps_log, step) == Len(SelectSeq(steps_log, LAMBDA e : e = step))

IsPrefix(xs, ys) == Len(xs) <= Len(ys) /\ xs = SubSeq(ys, 1, Len(xs))

\* the steps of a request in their order, without and with warming
Orders ==
    { <<"intercept", "admit", "engine_call">>,
      <<"intercept", "warm_call", "admit", "engine_call">> }

C28LookupRaised ==
    http.pc = "done" /\ {"lookup", "admission", "observer"} \subseteq http.raised

----------------------------------------------------------------------------
(* Claims about the readiness of a reconstructed transport (SpecAdmission) *)

\* C29: when the engine exposes a task group, every call of
\* ensure_session_transport returns only after the transport registered for
\* the id has its streams connected, also the call of a request that runs
\* while another request's start of that transport is pending.
CexC29 ==
    task_group =>
        \A r \in Requests : decision[r].returned => decision[r].ready

\* a request's ensure_session_transport returns while the start another
\* request awaits is pending: it found the id in the engine's mapping
C29Pending ==
    \E r, q \in Requests :
        /\ task_group
        /\ rpc[q] = "start"
        /\ transport = NewTransport(q)
        /\ decision[r].returned
        /\ ~decision[r].ready
        /\ ~decision[r].failed

\* the request that started the registered transport itself returns with
\* the streams connected unless the start failed
C29Starter ==
    [][\A r \in Requests :
          (/\ rpc[r] = "start"
           /\ transport = NewTransport(r)
           /\ rpc'[r] # "start"
           /\ ~decision'[r].failed) => decision'[r].returned /\ decision'[r].ready]_vars

----------------------------------------------------------------------------
(* Claims about callers that meet a HALF_OPEN breaker (SpecBreaker) *)

\* the callers whose wrapped call is in flight
InFlight == {c \in Callers : pc[c] \in {"attempt", "sleep"}}

\* C30: after reset_timeout has elapsed on an OPEN breaker a single call is
\* attempted as the HALF_OPEN trial: of the callers that arrive then, at most
\* one has its wrapped call in flight until the trial has completed.
CexC30 ==
    breaker.state = HALF_OPEN => Cardinality(trials \cap InFlight) <= 1

\* the step from OPEN to HALF_OPEN itself lets in the one caller that takes it
C30Step ==
    [][(breaker.state = OPEN /\ breaker'.state = HALF_OPEN)
          => \E c \in Callers : /\ pc[c] = "idle"
                                /\ trials' = trials \cup {c}
                                /\ InFlight' = InFlight \cup {c}]_vars

----------------------------------------------------------------------------
(* ASGITransportWrapper.wrap with the interceptor: a request's JSON-RPC    *)
(* message is shown to handle_incoming, and the response to handle_outgoing *)
(* under the session id the wrapper then knows (SpecFlow)                  *)

\* everything but the session store, the contexts and the request served
NotFlowSessions == <<varsB, varsE, varsW, varsR, varsA, varsT, varsK, varsL, varsM, varsH>>

\* no request is being served
NoFlow == [pc |-> "none"]

\* the session id wrapped_send goes on with after the response start: the
\* one of the response's mcp-session-id header if it has one
ResponseSessionId(session_id, header_sid) ==
    IF header_sid # None THEN header_sid ELSE session_id

\* the wrapper's interception block for a body that is a JSON object:
\* handle_incoming, then the session id is extracted from the message and the
\* request headers
FlowRequest(n, method, params_session_id, params, headers) ==
    /\ flow.pc # "request"
    /\ IncomingStep(n, method, params_session_id, params, headers)
    /\ flow' = [pc |-> "request", n |-> n, method |-> method, params |-> params,
                request_sid |-> ExtractSessionId(params_session_id, headers),
                session_id |-> ExtractSessionId(params_session_id, headers),
                observed |-> FALSE]
    /\ UNCHANGED NotFlowSessions

\* wrapped_send for the response start and the complete body: with a JSON
\* content type and a session id the body is shown to handle_outgoing
FlowResponse(header_sid, json_response, response_method) ==
    /\ flow.pc = "request"
    /\ LET session_id == ResponseSessionId(flow.session_id, header_sid)
           observed == json_response /\ session_id # None
       IN  /\ flow' = [flow EXCEPT !.pc = "responded", !.session_id = session_id,
                                   !.observed = observed]
           /\ IF observed
              THEN OutgoingStep(flow.n, session_id, response_method)
              ELSE /\ steps' = {}
                   /\ created' = [done |-> FALSE]
                   /\ UNCHANGED <<storage, cache, context>>
    /\ UNCHANGED NotFlowSessions

InitFlow ==
    /\ storage = <<>>
    /\ cache = [n \in Nodes |-> <<>>]
    /\ context = [n \in Nodes |-> NewContext(n)]
    /\ steps = {}
    /\ created = [done |-> FALSE]
    /\ flow = NoFlow
    /\ IdleBreaker
    /\ IdleEvents
    /\ IdleWrapper
    /\ IdleReplay
    /\ IdleAdmission
    /\ IdleRetries
    /\ IdleStorage
    /\ IdleCache
    /\ IdleManager
    /\ IdlePipeline

\* the request headers: none that carries a session id, or mcp-session-id
FlowHeaders == {NoHeaders} \cup {[NoHeaders EXCEPT !.mcp_session_id = s] : s \in SessionIds}

NextFlow ==
    \/ \E n \in Nodes, method \in Methods, sid \in MaybeIds,
          headers \in FlowHeaders :
            \E params \in ParamsOf(method) :
                FlowRequest(n, method, sid, params, headers)
    \/ \E header_sid \in MaybeIds, json_response \in BOOLEAN,
          rm \in ResponseMethods :
            FlowResponse(header_sid, json_response, rm)

SpecFlow == InitFlow /\ [][NextFlow]_vars

----------------------------------------------------------------------------
(* Claims about a request and its observed response (SpecFlow) *)

\* the client_id and the capabilities MCPSession is given for the params
ClientIdOf(params) == IF params.clientInfo # None THEN params.clientInfo ELSE "unknown"
CapabilitiesOf(params) == IF params.capabilities # None THEN params.capabilities ELSE "{}"

\* the wrapper has observed the response, with header Mcp-Session-Id: S, of
\* an initialize request that bore no session id
InitializeObserved ==
    /\ flow.pc = "responded"
    /\ flow.method = "initialize"
    /\ flow.request_sid = None
    /\ flow.session_id = "S"
    /\ flow.observed

\* C31: after the wrapper has observed the response, with header
\* Mcp-Session-Id: S, of an initialize request without any session id, the
\* store holds a record for S whose client_id is the request's
\* clientInfo.name and whose capabilities are the request's capabilities.
CexC31 ==
    InitializeObserved =>
        /\ "S" \in DOMAIN storage
        /\ storage["S"].client_id = ClientIdOf(flow.params)
        /\ storage["S"].capabilities = CapabilitiesOf(flow.params)

\* what holds instead: the store has a record for S, which bears the
\* client_id and the capabilities of whatever was stored before, or
\* "unknown" and no capabilities if the record is new
C31Record ==
    InitializeObserved =>
        /\ "S" \in DOMAIN storage
        /\ created.done =>
              /\ storage["S"].client_id = "unknown"
              /\ storage["S"].capabilities = "{}"
              /\ storage["S"].metadata.created_fallback

\* C31 holds of the initialize requests that do bear the session id
C31WithId ==
    (/\ flow.pc = "responded"
     /\ flow.method = "initialize"
     /\ flow.request_sid = "S"
     /\ flow.session_id = "S"
     /\ flow.observed) =>
        /\ "S" \in DOMAIN storage
        /\ storage["S"].client_id = ClientIdOf(flow.params)
        /\ storage["S"].capabilities = CapabilitiesOf(flow.params)

----------------------------------------------------------------------------
(* Claims about the session manager calls of handle_outgoing (SpecSessions) *)

\* how often handle_outgoing calls SessionManager.create: once in the branch
\* for an id without record, once in the branch for an initialize
CreateCalls(last_method, existing, session_id) ==
    (IF ~existing /\ session_id # None THEN 1 ELSE 0)
    + (IF last_method = "initialize" THEN 1 ELSE 0)

\* C32: on an observed initialize response handle_outgoing calls create
\* exactly once when the session id has no record and never when a record
\* exists: the existing record is updated (status INITIALIZED, client_id from
\* the new initialize params) and not replaced.
CexC32 ==
    [][\A n \in Nodes, sid \in SessionIds :
          (HandleOutgoing(n, sid, None) /\ context[n].last_method = "initialize")
          => LET p0 == Pair(storage, cache[n])
                 existing == ManagerGetHit(p0, sid)
                 calls_of_create == CreateCalls(context[n].last_method, existing, sid)
             IN  IF ~existing
                 THEN calls_of_create = 1
                 ELSE /\ calls_of_create = 0
                      /\ storage'[sid] =
                            [ManagerGetValue(p0, sid) EXCEPT
                                !.status = INITIALIZED,
                                !.client_id = ClientIdOf(context[n].init_params)]]_vars

\* what the code does on an observed initialize response: two creates for an
\* id without record and one for an id with a record, and in both cases the
\* store then holds the new INITIALIZING record in place of any other
C32Replaced ==
    [][\A n \in Nodes, sid \in SessionIds :
          (HandleOutgoing(n, sid, None) /\ context[n].last_method = "initialize")
          => LET existing == ManagerGetHit(Pair(storage, cache[n]), sid)
             IN  /\ CreateCalls(context[n].last_method, existing, sid)
                       = IF existing THEN 1 ELSE 2
                 /\ storage'[sid] = NewSession(sid, context[n], FALSE)
                 /\ storage'[sid].status = INITIALIZING]_vars

----------------------------------------------------------------------------
(* core/session_manager.py : create, get, update and delete with the cache *)
(* enabled, as far as their store calls go (SpecGuard).  create, get and   *)
(* delete make their one store call in breaker.run(with_retries(_op));     *)
(* update makes a second one, the get_session that refreshes the cache.    *)

\* the callers that call SessionManager.update; the others call get
Updaters == {"r2"}

\* with_retries: coro_factory() returns; run's else branch: _on_success; an
\* update goes on to refresh the cache
GuardedCallOk(c) ==
    IF c \notin Updaters
    THEN StoreCallOk(c)
    ELSE /\ pc[c] = "attempt"
         /\ storeUp
         /\ calls' = [calls EXCEPT ![c] = @ + 1]
         /\ breaker' = OnSuccess(breaker)
         /\ pc' = [pc EXCEPT ![c] = "refresh"]
         /\ consec' = 0
         /\ storeFails' = 0
         /\ lastTrial' = IF breaker.state = HALF_OPEN THEN "ok" ELSE lastTrial
         /\ trials' = trials \ {c}
         /\ UNCHANGED <<config, retry_attempts, now, storeUp, attempt, outcome>>
         /\ UNCHANGED NotBreaker

\* SessionManager.update, after breaker.run has returned:
\* session = await self._storage.get_session(session_id), which answers or
\* raises; what it raises leaves update as it is
RefreshCall(c) ==
    /\ pc[c] = "refresh"
    /\ calls' = [calls EXCEPT ![c] = @ + 1]
    /\ pc' = [pc EXCEPT ![c] = "idle"]
    /\ outcome' = [outcome EXCEPT ![c] = IF storeUp THEN "ok" ELSE "error"]
    /\ storeFails' = IF storeUp THEN 0 ELSE storeFails + 1
    /\ UNCHANGED <<config, retry_attempts, breaker, now, storeUp, attempt,
                   consec, lastTrial, trials>>
    /\ UNCHANGED NotBreaker

NextGuard ==
    \/ \E c \in Callers : GetBegin(c)
    \/ \E c \in Callers : GuardedCallOk(c)
    \/ \E c \in Callers : StoreCallRetry(c)
    \/ \E c \in Callers : Wake(c)
    \/ \E c \in Callers : StoreCallFail(c)
    \/ \E c \in Callers : RefreshCall(c)
    \/ Tick
    \/ StoreDown
    \/ StoreRecover

SpecGuard == InitBreaker /\ [][NextGuard]_vars

----------------------------------------------------------------------------
(* Claims about where the manager's store calls are made (SpecGuard) *)

\* the caller makes a store call in this step
StoreCallBy(c) == calls'[c] = calls[c] + 1

\* C33: every store call of create, get, update and delete is made inside
\* the retry wrapper inside the breaker, an operation whose retries are all
\* exhausted counts as exactly one breaker failure, and no store call is made
\* while the breaker is OPEN.
CexC33 ==
    [][\A c \in Callers :
          /\ StoreCallBy(c) => (pc[c] = "attempt" /\ breaker.state # OPEN)
          /\ (pc[c] = "attempt" /\ pc'[c] = "idle" /\ outcome'[c] = "error")
                => (calls'[c] = retry_attempts
                    /\ breaker'.failures = breaker.failures + 1)]_vars

\* the part of C33 about update alone: its store calls are made inside
\* breaker.run(with_retries(...))
C33Inside ==
    [][\A c \in Callers : StoreCallBy(c) => pc[c] = "attempt"]_vars

\* exhausted retries count as exactly one breaker failure, for every caller
C33OneFailure ==
    [][\A c \in Callers :
          (pc[c] = "attempt" /\ pc'[c] = "idle" /\ outcome'[c] = "error")
          => (calls'[c] = retry_attempts
              /\ breaker'.failures = breaker.failures + 1)]_vars

\* a store call of an operation other than update is made while the breaker
\* is OPEN: by an operation that began before the breaker opened
C33Open ==
    [][\A c \in Callers \ Updaters : StoreCallBy(c) => breaker.state # OPEN]_vars

----------------------------------------------------------------------------
(* Claims about what the engine's receive yields (SpecWrapper) *)

\* the wrapper takes an event from the client's receive in this step
TakesEvent == wire # <<>> /\ wire' = Tail(wire)

\* C34: the engine's receive yields first, once, one http.request message
\* that holds the concatenation of all request body chunks, and afterwards
\* every further client event verbatim; no event the wrapper takes from the
\* client's receive is lost to the engine, an http.disconnect that arrives
\* while the body is being drained included.
CexC34 ==
    /\ [][WrappedReceiveFirst =>
            /\ ~engine_body.got
            /\ engine_body' = [got |-> TRUE, body |-> Join(body_chunks)]]_vars
    /\ [][TakesEvent =>
            \/ Head(wire).type = "http.request" /\ wpc = "drain"
            \/ WrappedReceivePassthrough]_vars

\* the part of C34 about the events: whatever the wrapper takes from the
\* client's receive is a body chunk it buffers or goes to the engine
C34Events ==
    [][TakesEvent =>
          \/ Head(wire).type = "http.request" /\ wpc = "drain"
          \/ WrappedReceivePassthrough]_vars

\* what holds: the first receive of the engine yields once, and events are
\* lost in the drain only; after it they go to the engine
C34AfterDrain ==
    /\ [][WrappedReceiveFirst => ~engine_body.got /\ engine_body'.got]_vars
    /\ [][(TakesEvent /\ wpc # "drain") => WrappedReceivePassthrough]_vars

\* the body was cut short by the client's disconnect, which the drain took,
\* and the engine has been given the part as a complete body
C34CutShort ==
    /\ wpc = "serve"
    /\ wire = <<>>
    /\ engine_body.got
    /\ Len(body_chunks) = 2
    /\ body_chunks[2] = <<>>
    /\ engine_body.body = body_chunks[1]
    /\ engine_body.body # <<>>

----------------------------------------------------------------------------
(* event/inmemory.py : InMemoryEventStore with every cap its constructor
   accepts (SpecCap) *)

\* InMemoryEventStore.__init__: max_events_per_stream is any int that
\* deque(maxlen=...) accepts, 0 included
InitCap ==
    /\ backend = "memory"
    /\ max_events_per_stream \in 0..MaxCap
    /\ streams = [s \in Streams |-> <<>>]
    /\ event_index = <<>>
    /\ xstreams = [s \in Streams |-> <<>>]
    /\ xindex = <<>>
    /\ xpending = {}
    /\ redis_ms = 1
    /\ log = <<>>
    /\ replayed = NoReplay
    /\ IdleBreaker
    /\ IdleSessions
    /\ IdleWrapper
    /\ IdleReplay
    /\ IdleAdmission
    /\ IdleRetries
    /\ IdleStorage
    /\ IdleCache
    /\ IdleManager
    /\ IdlePipeline
    /\ IdleFlow

NextCap ==
    \/ \E s \in Streams : MemStoreEvent(s)
    \/ \E x \in EventIds : MemReplay(x)

SpecCap == InitCap /\ [][NextCap]_vars

----------------------------------------------------------------------------
(* Claims about the cap of the in-memory event store (SpecCap) *)

\* the ids of the events held in some stream
HeldIds ==
    UNION {{streams[s][i].event_id : i \in 1..Len(streams[s])} : s \in Streams}

\* the events stored on a stream, in the order stored
StoredOn(s) == SelectSeq(log, LAMBDA e : e.stream_id = s)

\* the last n elements of a sequence
LastOf(q, n) == SubSeq(q, IF Len(q) > n THEN Len(q) - n + 1 ELSE 1, Len(q))

\* the streams hold the newest events, at most the cap on each, and the
\* index holds the ids of the events held and no other
Capped ==
    /\ \A s \in Streams :
         /\ Len(streams[s]) <= max_events_per_stream
         /\ streams[s] = LastOf(StoredOn(s), max_events_per_stream)
    /\ DOMAIN event_index = HeldIds

\* a replay on the id of an event no stream holds returns none and sends
\* nothing
ReplayOfEvicted ==
    (replayed.done /\ replayed.last \notin HeldIds) =>
        replayed.result = None /\ replayed.sent = <<>>

\* C35: after any sequence of store_event calls each stream of the in-memory
\* store holds at most max_events_per_stream events, the oldest evicted
\* first, and the index contains exactly the ids of the events still held in
\* some stream, so that replay_events_after on the id of an evicted event
\* returns none and invokes the callback zero times.
CexC35 == Capped /\ ReplayOfEvicted

\* with a cap of one event or more the store does as C35 says
C35Positive == max_events_per_stream >= 1 => Capped /\ ReplayOfEvicted

\* a full stream has evicted its oldest event, and a replay on that event's
\* id returned none
C35Evicted ==
    /\ max_events_per_stream >= 1
    /\ replayed.done
    /\ \E i \in 1..Len(log) : log[i].event_id = replayed.last
    /\ replayed.last \notin HeldIds
    /\ replayed.result = None

\* cap 0: the stream holds nothing, the index holds the id of the event
\* stored, and a replay on it returns the stream's id
C35Zero ==
    /\ max_events_per_stream = 0
    /\ replayed.done
    /\ replayed.last \in DOMAIN event_index
    /\ replayed.last \notin HeldIds
    /\ replayed.result \in Streams

----------------------------------------------------------------------------
(* Claims about how the breaker leaves OPEN (SpecBreaker) *)

\* C36: the breaker leaves OPEN only through HALF_OPEN, after reset_timeout:
\* a call that was started while the breaker was CLOSED and completes
\* successfully after other calls' failures have opened it does not set the
\* state back to CLOSED and does not clear the failure count.
CexC36 ==
    [][breaker.state = OPEN =>
          /\ breaker'.state \in {OPEN, HALF_OPEN}
          /\ breaker'.state = HALF_OPEN => TimeoutElapsed(breaker, now)
          /\ breaker'.failures >= breaker.failures]_vars

\* the part of C36 about the step to HALF_OPEN: it is taken after
\* reset_timeout only, by a caller that begins a run
C36Timeout ==
    [][(breaker.state = OPEN /\ breaker'.state = HALF_OPEN) =>
          /\ TimeoutElapsed(breaker, now)
          /\ \E c \in Callers : GetBegin(c)]_vars

\* the case of C36: the success of a call that began while the breaker was
\* CLOSED leaves an OPEN breaker as it is
C36Stale ==
    [][\A c \in Callers :
          (StoreCallOk(c) /\ breaker.state = OPEN /\ c \notin trials)
              => breaker' = breaker]_vars

\* what the code does: every successful call closes the breaker, whatever
\* its state, before reset_timeout as well
C36Closes ==
    [][\A c \in Callers :
          StoreCallOk(c) => breaker'.state = CLOSED /\ breaker'.failures = 0]_vars

----------------------------------------------------------------------------
(* core/session_manager.py : SessionManager.get as the two steps its await *)
(* of the store makes of it, beside create and delete on the same node     *)
(* (SpecRace).  InMemoryStorage never suspends, so with it a get is one    *)
(* step: nothing runs between its read and its cache.set.                  *)

\* the cache calls of one behaviour
MaxRaceOps == 7

\* no get is awaiting the store; gone holds the ids whose delete has
\* returned with no create since
NoRace == [pc |-> "idle", id |-> None, session |-> NoSession,
           returned |-> NoSession, gone |-> {}, began_gone |-> FALSE]

\* SessionManager.get up to the store's answer: a cache hit returns at once,
\* a miss reads the store
GetRead(session_id) ==
    /\ got.pc = "idle"
    /\ l1.tick + 2 <= MaxRaceOps
    /\ LET c1 == TtlGet(l1, session_id)
       IN /\ l1' = c1
          /\ got' = IF c1.returned.hit
                    THEN [got EXCEPT !.id = session_id,
                                     !.returned = Found(c1.returned.value),
                                     !.began_gone = session_id \in got.gone]
                    ELSE [got EXCEPT !.pc = "read", !.id = session_id,
                                     !.session = GetSessionOn(K, session_id),
                                     !.began_gone = session_id \in got.gone]
    /\ UNCHANGED varsK
    /\ UNCHANGED <<varsB, varsE, varsS, varsW, varsR, varsA, varsT, varsH, varsF>>

\* SessionManager.get after the await: cache.set when the store gave a
\* record, and the return
GetCacheSet ==
    /\ got.pc = "read"
    /\ l1' = IF got.session.found
             THEN TtlSet(l1, got.id, got.session.session) ELSE l1
    /\ got' = [got EXCEPT !.pc = "idle", !.returned = got.session,
                          !.session = NoSession]
    /\ UNCHANGED varsK
    /\ UNCHANGED <<varsB, varsE, varsS, varsW, varsR, varsA, varsT, varsH, varsF>>

\* another task runs only while a get is suspended on the store
MayRun == got.pc = "idle" \/ adapter = "redis"

\* SessionManager.delete returns: delete_session is done, then cache.delete
DeleteReturn(session_id) ==
    /\ MayRun
    /\ l1.tick + 1 <= MaxRaceOps
    /\ LET k1 == DeleteSessionOn(K, session_id)
       IN /\ sessions' = k1.sessions
          /\ events' = k1.events
    /\ l1' = TtlDelete(l1, session_id)
    /\ got' = [got EXCEPT !.gone = @ \cup {session_id}]
    /\ UNCHANGED <<adapter, ops, deleted, updated>>
    /\ UNCHANGED <<varsB, varsE, varsS, varsW, varsR, varsA, varsT, varsH, varsF>>

\* SessionManager.create returns: create_session is done, then cache.set
CreateReturn(session) ==
    /\ MayRun
    /\ l1.tick + 1 <= MaxRaceOps
    /\ LET k1 == CreateSessionOn(K, session)
       IN /\ sessions' = k1.sessions
          /\ events' = k1.events
    /\ l1' = TtlSet(l1, session.id, session)
    /\ got' = [got EXCEPT !.gone = @ \ {session.id}]
    /\ UNCHANGED <<adapter, ops, deleted, updated>>
    /\ UNCHANGED <<varsB, varsE, varsS, varsW, varsR, varsA, varsT, varsH, varsF>>

\* the cache's clock advances
RaceTick == CacheTick

InitRace ==
    /\ l1 \in {NewCache(n, t) : n \in 1..MaxSize, t \in 0..1}
    /\ adapter \in {"memory", "redis"}
    /\ sessions = <<>>
    /\ events = <<>>
    /\ ops = [c \in Clients |-> IdleOp]
    /\ deleted = NotDeleted
    /\ updated = NoUpdates
    /\ got = NoRace
    /\ IdleBreaker
    /\ IdleEvents
    /\ IdleSessions
    /\ IdleWrapper
    /\ IdleReplay
    /\ IdleAdmission
    /\ IdleRetries
    /\ IdlePipeline
    /\ IdleFlow

NextRace ==
    \/ \E i \in ManagerIds : GetRead(i)
    \/ GetCacheSet
    \/ \E i \in ManagerIds : DeleteReturn(i)
    \/ \E s \in ManagerSessions : CreateReturn(s)
    \/ RaceTick

SpecRace == InitRace /\ [][NextRace]_vars

----------------------------------------------------------------------------
(* Claims about a get that overlaps a delete (SpecRace) *)

\* the cache holds an entry for the key
Cached(c, key) == \E i \in 1..Len(c.store) : c.store[i].key = key

\* C37: after SessionManager.delete(id) has returned on a node, and absent a
\* later create of id, the node's cache holds no entry for id and a get(id)
\* returns none, also when a get(id) whose store read preceded the deletion
\* completes after the delete has invalidated the cache.
CexC37 ==
    /\ \A i \in got.gone : ~Cached(l1, i)
    /\ (got.pc = "idle" /\ got.id \in got.gone /\ got.began_gone)
          => got.returned = NoSession

\* with a store that never suspends the get, C37 holds
C37Memory == adapter = "memory" => CexC37

\* without a get in flight when the delete returns, the cache holds no
\* entry for the id afterwards
C37Alone ==
    [][\A i \in ManagerIds :
          (DeleteReturn(i) /\ got.pc = "idle") => ~Cached(l1', i)]_vars

\* a get begun after the delete returned was answered from the cache with
\* the record that the store no longer holds
C37Stale ==
    /\ got.pc = "idle"
    /\ got.id \in got.gone
    /\ got.began_gone
    /\ got.returned.found
    /\ ~GetSessionOn(K, got.id).found

----------------------------------------------------------------------------
(* Claims about an update_session that overlaps a delete_session
   (SpecStorage) *)

\* the store comes to hold a record for an id it did not hold
Appears(session_id) ==
    session_id \notin DOMAIN sessions /\ session_id \in DOMAIN sessions'

\* C38: the store-backed update_session never brings a deleted session
\* back: once delete_session(id) has removed the record, only a
\* create_session(id) makes get_session(id) return a record again, also
\* when an update_session(id, D) was running concurrently with the delete.
CexC38 ==
    [][\A i \in StoreIds :
          Appears(i) => \E c \in Clients, s \in NewSessions(StoreIds) :
                           s.id = i /\ StoreCreate(c, s)]_vars

\* C38 on InMemoryStorage, whose update_session never suspends
C38Memory ==
    [][\A i \in StoreIds :
          (adapter = "memory" /\ Appears(i))
             => \E c \in Clients, s \in NewSessions(StoreIds) :
                   s.id = i /\ StoreCreate(c, s)]_vars

\* an update_session that finds no record when it is called writes none
C38Absent ==
    [][\A c \in Clients, i \in StoreIds, u \in UpdateArgs :
          (StoreUpdateBegin(c, i, u) /\ i \notin DOMAIN sessions)
             => sessions' = sessions]_vars

\* the case of C38: the SET of an update_session whose GET preceded the
\* delete never writes a record the store no longer holds
C38Write ==
    [][\A c \in Clients :
          StoreUpdateWrite(c) => ~Appears(ops[c].id)]_vars

----------------------------------------------------------------------------
(* Claims about admission of a session the store says is CLOSED
   (SpecAdmission) *)

\* this step registers a transport for the session with the engine
Reconstructs == TheSession \notin instances /\ TheSession \in instances'

\* this step sends the internal notifications/initialized to the engine
Warms == internal_sent' = internal_sent + 1

\* C39: a node never reconstructs an engine transport, and never sends the
\* internal warming notification, for a session whose status in the shared
\* store is CLOSED at that moment, also when the session lookup fails or
\* answers from an earlier snapshot.
CexC39 ==
    [][record = CLOSED_STATUS => ~Reconstructs /\ ~Warms]_vars

\* when the lookup answers with the stored status, a CLOSED session is
\* neither reconstructed nor warmed
C39Answered ==
    [][\A r \in Requests, ctor_raises \in BOOLEAN :
          (Lookup(r, FALSE, ctor_raises) /\ record = CLOSED_STATUS)
             => ~Reconstructs /\ ~Warms]_vars

\* the internal notification is never sent for a CLOSED session: it is sent
\* only after a lookup that answered ACTIVE
C39NoWarm ==
    [][record = CLOSED_STATUS => ~Warms]_vars

\* the lookup raised for a session the store says is CLOSED, and the
\* transport was reconstructed
C39Failed ==
    \E r \in Requests :
        /\ decision[r].answer = "raises"
        /\ decision[r].stored = CLOSED_STATUS
        /\ record = CLOSED_STATUS
        /\ TheSession \notin decision[r].before
        /\ transport = ConnectedTransport
        /\ decision[r].ready

----------------------------------------------------------------------------
(* Claims about the warmed set (SpecPipeline) *)

\* C40: a session id is in the wrapper's warmed set only if the engine
\* processed the internal notifications/initialized request for it without
\* raising: a warming attempt that fails leaves the id out of the warmed
\* set, so that a later request for the id on this node warms again.
CexC40 == "warming" \in http.raised => ~http.warmed

\* the id enters the warmed set in the warming step only, and that step
\* puts it there whether the engine raised or not
C40Marked ==
    /\ [][(~http.warmed /\ http'.warmed)
            => \E warm_raises \in BOOLEAN, replies \in 0..MaxChunks :
                  HttpWarm(warm_raises, replies)]_vars
    /\ [][\A warm_raises \in BOOLEAN, replies \in 0..MaxChunks :
            HttpWarm(warm_raises, replies) => http'.warmed]_vars

\* the engine raised on the internal request, the id is marked warmed all
\* the same, and the client's request has been served
C40Failed ==
    /\ http.pc = "done"
    /\ "warming" \in http.raised
    /\ http.warmed
    /\ http.status = ACTIVE
    /\ http.warm_sent = 0

============================================================================
